---- MODULE Spec2Model ----
(***************************************************************************)
(* Location resolution of the weather server (weather_server/server.py):   *)
(* get_coordinates and the GeolocationService it drives, the tools of      *)
(* call_tool, the TimeService, and the GeolocationService of               *)
(* weather_server/geolocation.py.                                          *)
(*                                                                         *)
(* Representation.  A Python str is a sequence of tokens (TLA+ strings);   *)
(* an optional str is a record [some, s]; a JSON number or null is a       *)
(* record [t, v], where v holds degrees scaled by 10^4.  An HTTP response  *)
(* is [status, json, text, data]: data is the parsed JSON object (a field  *)
(* a body lacks reads as None/Null, as dict.get does), json says whether   *)
(* the body parses as a JSON object, text is the raw body.                 *)
(*                                                                         *)
(* Specifications.  Spec: one call of get_coordinates after another.       *)
(* RepeatSpec: a call made twice against the same provider answers.        *)
(* ConcurrentSpec: two calls as coroutines of one event loop.              *)
(* ForecastSpec: call_tool for get_weather_forecast, up to get_forecast.   *)
(* GeocodingSpec: get_geolocation_from_name against every failure of the   *)
(* geocoding request, each request being answered or timing out.           *)
(* TerminationSpec: get_coordinates, each request answered or timing out.  *)
(* ToolSpec: call_tool for every tool name, to the returned text.          *)
(* TimeWordsSpec: _format_time_words over every reading of the clock.      *)
(* CompareSpec: the single-provider and the multi-provider                 *)
(* get_geolocation_from_ip called with the same client_ip.                 *)
(***************************************************************************)
EXTENDS Integers, Sequences, FiniteSets, TLC

VARIABLES
    pc,                    \* where the request is: idle, awaiting a call, done
    arguments,             \* the arguments dict of the running get_coordinates
    geocoding,             \* the geocoding provider: query -> response (fixed per call)
    location_name,         \* get_geolocation_from_name's parameter (current frame)
    ip_address,            \* get_geolocation_from_ip's local ip_address
    svc,                   \* index of the service the running for-loop is at
    requests,              \* outbound HTTP requests of this call, in order
    responses,             \* the responses they got, in order
    log,                   \* warning and error log records of this call
    result,                \* what get_coordinates returned or raised
    geolocation_services,  \* GeolocationService.geolocation_services
    public_ip_services,    \* GeolocationService.public_ip_services
    previous,              \* the outcome of the same call made before, kept to compare
    other,                 \* the frame of a second request, suspended at an await
    forecast,              \* get_weather_forecast: its days argument, the days it asks
    tool,                  \* call_tool: the tool named, its weather fetch, what it returns
    clock,                 \* the reading of datetime.now(tz) and the words spoken for it
    single                 \* the run of geolocation.py's single-provider service

vars == <<pc, arguments, geocoding, location_name, ip_address, svc, requests,
          responses, log, result, geolocation_services, public_ip_services,
          previous, other, forecast, tool, clock, single>>

-----------------------------------------------------------------------------
(* Bounds of the model *)

\* a place name has at most this many comma-separated segments
MaxSegments == 3

\* the days argument lies between -MaxDays and MaxDays, in steps of a half
MaxDays == 10

-----------------------------------------------------------------------------
(* Python values *)

None == [some |-> FALSE, s |-> <<>>]
Some(s) == [some |-> TRUE, s |-> s]
Null == [t |-> "null", v |-> 0]
Num(n) == [t |-> "num", v |-> n]
\* float('nan'), and the NaN literal json.loads accepts
NaN == [t |-> "nan", v |-> 0]

\* bool(x) of an optional str: None and '' are falsy
TruthyStr(o) == o.some /\ o.s # <<>>
\* bool(x) of a JSON number or null: None and 0 are falsy, NaN is truthy
TruthyNum(x) == x.t = "nan" \/ (x.t = "num" /\ x.v # 0)

Range(s) == { s[i] : i \in 1..Len(s) }

\* sub in s, for token sequences: sub occurs contiguously in s
Contains(s, sub) ==
    \E i \in 0..(Len(s) - Len(sub)) : SubSeq(s, i + 1, i + Len(sub)) = sub

Whitespace == { " ", "\n" }

\* str.strip()
RECURSIVE LStrip(_)
LStrip(s) == IF s # <<>> /\ Head(s) \in Whitespace THEN LStrip(Tail(s)) ELSE s
RECURSIVE RStrip(_)
RStrip(s) ==
    IF s # <<>> /\ s[Len(s)] \in Whitespace THEN RStrip(SubSeq(s, 1, Len(s) - 1)) ELSE s
Strip(s) == RStrip(LStrip(s))

\* str.split(sep): the list of the pieces between the separators
Split(s, sep) ==
    LET at == { k \in 1..Len(s) : s[k] = sep }
        cut(j) == IF j = 0 THEN 0
                  ELSE IF j > Cardinality(at) THEN Len(s) + 1
                  ELSE CHOOSE k \in at : Cardinality({ m \in at : m < k }) = j - 1
    IN  [ j \in 1..(Cardinality(at) + 1) |-> SubSeq(s, cut(j - 1) + 1, cut(j) - 1) ]

\* str.replace(old, new) where old is one token
RECURSIVE Replace(_, _, _)
Replace(s, old, new) ==
    IF s = <<>> THEN <<>>
    ELSE (IF Head(s) = old THEN new ELSE << Head(s) >>) \o Replace(Tail(s), old, new)

\* f"{x}" of an optional str
FormatStr(o) == IF o.some THEN o.s ELSE << "None" >>

\* the decimal texts the model uses, with the number each denotes (x 10^4)
NumberText ==
    [ n \in { 0, 515074, -1278, 407128, -740060, 377510, -974800 } |->
        CASE n = 0 -> "0"
          [] n = 515074 -> "51.5074"
          [] n = -1278 -> "-0.1278"
          [] n = 407128 -> "40.7128"
          [] n = -740060 -> "-74.006"
          [] n = 377510 -> "37.751"
          [] n = -974800 -> "-97.48" ]

\* f"{x}" of a JSON number or null
FormatNum(x) ==
    IF x.t = "num" THEN NumberText[x.v] ELSE IF x.t = "nan" THEN "nan" ELSE "None"

\* float(x) of a number
Float(x) == Num(x.v)

-----------------------------------------------------------------------------
(* GeolocationService.__init__ *)

GeolocationServices ==
    << << "https://", "ipapi.co", "/json/" >>,
       << "https://", "ipinfo", ".io", "/json" >>,
       << "http://", "ip-api.com", "/json/" >> >>

PublicIpServices ==
    << << "https://", "api.", "ipify", ".org?format=json" >>,
       << "https://", "icanhazip.com", "/" >>,
       << "https://", "checkip.amazonaws.com", "/" >> >>

GeocodingUrl == << "https://", "geocoding-api.open-meteo.com", "/v1/search" >>

\* timeouts of the outbound calls, in seconds
PublicIpTimeout == 5
GeolocationTimeout == 10
GeocodingTimeout == 10

\* the default location, degrees x 10^4
DefaultLatitude == 407128
DefaultLongitude == -740060
DefaultLocationInfo == << "New York, USA (default fallback)" >>

-----------------------------------------------------------------------------
(* ipaddress.ip_address and is_private, for dotted IPv4 text *)

\* int(text) of the octet texts the model uses
DecimalValue ==
    [ t \in { "0", "1", "5", "8", "10", "16", "34", "93", "100", "127", "168", "169",
              "172", "184", "192", "216", "254", "255", "256" } |->
        CASE t = "0" -> 0 [] t = "1" -> 1 [] t = "5" -> 5 [] t = "8" -> 8
          [] t = "10" -> 10 [] t = "16" -> 16 [] t = "34" -> 34 [] t = "93" -> 93
          [] t = "100" -> 100 [] t = "127" -> 127 [] t = "168" -> 168
          [] t = "169" -> 169 [] t = "172" -> 172 [] t = "184" -> 184
          [] t = "192" -> 192 [] t = "216" -> 216 [] t = "254" -> 254
          [] t = "255" -> 255 [] t = "256" -> 256 ]

\* ipaddress.ip_address(ip) does not raise ValueError: four decimal octets in 0..255
ValidAddress(ip) ==
    LET parts == Split(ip, ".")
    IN  /\ Len(parts) = 4
        /\ \A i \in 1..4 :
              /\ Len(parts[i]) = 1
              /\ parts[i][1] \in DOMAIN DecimalValue
              /\ DecimalValue[parts[i][1]] <= 255

Octets(ip) == [ i \in 1..4 |-> DecimalValue[Split(ip, ".")[i][1]] ]

\* IPv4Address.is_private: membership in the private-use networks
IsPrivateNetwork(o) ==
    \/ o[1] = 0
    \/ o[1] = 10
    \/ o[1] = 127
    \/ (o[1] = 169 /\ o[2] = 254)
    \/ (o[1] = 172 /\ o[2] >= 16 /\ o[2] <= 31)
    \/ (o[1] = 192 /\ o[2] = 0 /\ o[3] = 0 /\ o[4] <= 7)
    \/ (o[1] = 192 /\ o[2] = 0 /\ o[3] = 0 /\ o[4] >= 170 /\ o[4] <= 171)
    \/ (o[1] = 192 /\ o[2] = 0 /\ o[3] = 2)
    \/ (o[1] = 192 /\ o[2] = 168)
    \/ (o[1] = 198 /\ o[2] >= 18 /\ o[2] <= 19)
    \/ (o[1] = 198 /\ o[2] = 51 /\ o[3] = 100)
    \/ (o[1] = 203 /\ o[2] = 0 /\ o[3] = 113)
    \/ o[1] >= 240

\* GeolocationService.is_private_ip: [value, warned]; ValueError is caught,
\* logged as a warning and answered False
is_private_ip(ip) ==
    IF ValidAddress(ip)
    THEN [value |-> IsPrivateNetwork(Octets(ip)), warned |-> FALSE]
    ELSE [value |-> FALSE, warned |-> TRUE]

-----------------------------------------------------------------------------
(* The HTTP fetch port: what a provider may answer *)

EmptyData ==
    [ ip |-> None, city |-> None, region |-> None, regionName |-> None,
      country |-> None, country_name |-> None, loc |-> None, query |-> None,
      latitude |-> Null, longitude |-> Null, lat |-> Null, lon |-> Null,
      results |-> <<>> ]

Timeout == [status |-> "timeout", json |-> FALSE, text |-> <<>>, data |-> EmptyData]
HttpError == [status |-> "http_error", json |-> FALSE, text |-> <<>>, data |-> EmptyData]
JsonBody(d) == [status |-> "ok", json |-> TRUE, text |-> << "{...}" >>, data |-> d]
TextBody(t) == [status |-> "ok", json |-> FALSE, text |-> t, data |-> EmptyData]

\* the address a public-IP echo service reports
EchoedAddress == << "93", ".", "184", ".", "216", ".", "34" >>

\* service 1 answers JSON, services 2 and 3 answer bare text
PublicIpResponses(i) ==
    { Timeout, HttpError } \cup
    IF i = 1
    THEN { JsonBody([EmptyData EXCEPT !.ip = Some(EchoedAddress)]),
           JsonBody(EmptyData),
           TextBody(<< "<html>" >>) }
    ELSE { TextBody(EchoedAddress \o << "\n" >>),
           TextBody(<< "\n" >>) }

\* a located answer in the schema of each geolocation provider
IpapiData(lat, lon, city) ==
    [EmptyData EXCEPT !.city = city, !.region = Some(<< "Kansas" >>),
                      !.country_name = Some(<< "United States" >>),
                      !.latitude = lat, !.longitude = lon,
                      !.ip = Some(EchoedAddress)]
IpinfoData(loc, city) ==
    [EmptyData EXCEPT !.city = city, !.region = Some(<< "Kansas" >>),
                      !.country = Some(<< "US" >>), !.loc = loc,
                      !.ip = Some(EchoedAddress)]
IpApiComData(lat, lon, city) ==
    [EmptyData EXCEPT !.city = city, !.regionName = Some(<< "Kansas" >>),
                      !.country = Some(<< "United States" >>),
                      !.lat = lat, !.lon = lon, !.query = Some(EchoedAddress)]

Wichita == Some(<< "Wichita" >>)

GeolocationResponses(i) ==
    { Timeout, HttpError, TextBody(<< "<html>" >>), JsonBody(EmptyData) } \cup
    CASE i = 1 -> { JsonBody(IpapiData(Num(377510), Num(-974800), Wichita)),
                    JsonBody(IpapiData(Num(0), Num(-974800), None)) }
      [] i = 2 -> { JsonBody(IpinfoData(Some(<< "37.751", ",", "-97.48" >>), Wichita)),
                    JsonBody(IpinfoData(Some(<< "37.751" >>), Wichita)),
                    JsonBody(IpinfoData(Some(<< "nan", ",", "-97.48" >>), Wichita)) }
      [] OTHER -> { JsonBody(IpApiComData(Num(377510), Num(-974800), None)),
                    JsonBody(IpApiComData(Num(377510), Num(0), Wichita)) }

\* float(text) of the decimal texts the model uses (x 10^4); other text raises
FloatValue ==
    [ t \in { "0", "37.751", "-97.48" } |->
        CASE t = "0" -> 0 [] t = "37.751" -> 377510 [] t = "-97.48" -> -974800 ]

\* candidates of the geocoding provider
Candidate(name, admin1, country, lat, lon) ==
    [ name |-> name, admin1 |-> admin1, country |-> country,
      latitude |-> lat, longitude |-> lon,
      timezone |-> Some(<< "America/Chicago" >>) ]

FullCandidate ==
    Candidate(Some(<< "Springfield" >>), Some(<< "Illinois" >>),
              Some(<< "United States" >>), Num(515074), Num(-1278))
BareCandidate ==
    Candidate(Some(<< "Springfield" >>), Some(<<>>), None, Num(377510), Num(0))
NoCoordinatesCandidate ==
    Candidate(Some(<< "Springfield" >>), None, Some(<< "United States" >>), Null, Null)

GeocodingResponses ==
    { Timeout,
      JsonBody(EmptyData),
      JsonBody([EmptyData EXCEPT !.results = << BareCandidate >>]),
      JsonBody([EmptyData EXCEPT !.results = << NoCoordinatesCandidate >>]),
      JsonBody([EmptyData EXCEPT !.results = << FullCandidate, BareCandidate >>]) }

-----------------------------------------------------------------------------
(* The arguments a caller may pass (typed as the tools' inputSchema says) *)

Segments == { << "a" >>, << " ", "b" >> }

RECURSIVE Join(_)
Join(segs) ==
    IF Len(segs) = 1 THEN segs[1] ELSE segs[1] \o << "," >> \o Join(Tail(segs))

SegmentLists(n) == [ 1..n -> Segments ]

PlaceNames ==
    { <<>> } \cup UNION { { Join(l) : l \in SegmentLists(n) } : n \in 1..MaxSegments }

LocationNameArgs == { None } \cup { Some(n) : n \in PlaceNames }
LatitudeArgs == { Null, Num(515074) }
LongitudeArgs == { Null, Num(0) }

PrivateAddress == << "192", ".", "168", ".", "1", ".", "5" >>
LoopbackAddress == << "127", ".", "0", ".", "0", ".", "1" >>
PublicAddress == << "8", ".", "8", ".", "8", ".", "8" >>
MalformedAddress == << "not-an-ip" >>

ClientIpArgs ==
    { None, Some(<<>>), Some(PrivateAddress), Some(LoopbackAddress),
      Some(PublicAddress), Some(MalformedAddress) }

\* the comma-truncated forms of a name: what precedes each of its commas, stripped
TruncatedForms(name) ==
    { Strip(SubSeq(name, 1, i - 1)) : i \in { k \in 1..Len(name) : name[k] = "," } }

\* the queries a call about this name can be about
Queries(name) == { name } \cup TruncatedForms(name)

-----------------------------------------------------------------------------
(* Requests, log records, results *)

Request(api, url, params, timeout) ==
    [api |-> api, url |-> url, params |-> params, timeout |-> timeout]

Warning(msg) == [level |-> "warning", msg |-> msg]
Error(msg) == [level |-> "error", msg |-> msg]

NoResult ==
    [status |-> "none", latitude |-> Null, longitude |-> Null,
     location_info |-> <<>>, error |-> <<>>]
Returned(lat, lon, info) ==
    [status |-> "return", latitude |-> lat, longitude |-> lon,
     location_info |-> info, error |-> <<>>]
Raised(msg) ==
    [status |-> "raise", latitude |-> Null, longitude |-> Null,
     location_info |-> <<>>, error |-> msg]

\* the arguments dict before any call
NoArguments ==
    [location_name |-> None, latitude |-> Null, longitude |-> Null, client_ip |-> None]

\* a call kept for comparison: what it was given, what it met, what it gave
Kept(args, provider, reqs, resps, lg, value) ==
    [valid |-> TRUE, arguments |-> args, geocoding |-> provider, requests |-> reqs,
     responses |-> resps, log |-> lg, result |-> value]
NoPrevious ==
    [valid |-> FALSE, arguments |-> NoArguments, geocoding |-> << >>, requests |-> <<>>,
     responses |-> <<>>, log |-> <<>>, result |-> NoResult]

\* the frame of a coroutine running get_coordinates: its locals and its position
Frame(at, args, provider, name, ip, i, reqs, resps, lg, value, kept) ==
    [pc |-> at, arguments |-> args, geocoding |-> provider, location_name |-> name,
     ip_address |-> ip, svc |-> i, requests |-> reqs, responses |-> resps,
     log |-> lg, result |-> value, previous |-> kept]
NoFrame ==
    Frame("idle", NoArguments, << >>, <<>>, None, 0, <<>>, <<>>, <<>>, NoResult,
          NoPrevious)

\* get_weather_forecast: the days argument and the days asked of get_forecast
Forecast(days, asked, n) == [days |-> days, requested |-> asked, forecast_days |-> n]
NoForecast == Forecast(Null, FALSE, 0)

\* call_tool: the tool named, the request to the weather provider (sent,
\* answered, its latitude, longitude and forecast_days parameters, the
\* response it got) and what the handler returned (status return with the
\* list of content items) or raised
NoResponse == [status |-> "none", json |-> FALSE, text |-> <<>>, data |-> EmptyData]
ToolCalled(name, sent, answered, lat, lon, n, status, items) ==
    [name |-> name, sent |-> sent, answered |-> answered, latitude |-> lat,
     longitude |-> lon, forecast_days |-> n, response |-> NoResponse,
     status |-> status, items |-> items,
     location |-> None, timezone |-> None, spoken_time |-> <<>>]
NoTool == ToolCalled("", FALSE, FALSE, Null, Null, 0, "none", <<>>)

\* dict.get(key, default) of a location dict
\* datetime.now(tz) as the time service reads it, and _format_time_words of it
Clock(read, hour, minute, month, day, words) ==
    [read |-> read, hour |-> hour, minute |-> minute, month |-> month, day |-> day,
     time_words |-> words]
NoClock == Clock(FALSE, 0, 0, 1, 1, <<>>)

\* geolocation.py, get_geolocation_from_ip: where the coroutine is, its local
\* target_ip, the URLs it asked, and what it returned
Single(at, target_ip, urls, returned, location) ==
    [pc |-> at, target_ip |-> target_ip, requests |-> urls, returned |-> returned,
     location |-> location]

DictGet(d, key, default) == IF key \in DOMAIN d THEN d[key] ELSE default

-----------------------------------------------------------------------------
(* get_coordinates: what it returns or raises *)

\* lines 567-570: the coordinates given
ExplicitCoordinates(latitude, longitude) ==
    Returned(Float(latitude), Float(longitude),
             << "Coordinates: ", FormatNum(latitude), ", ", FormatNum(longitude) >>)

\* lines 576-583: the geocoded location
GeocodedCoordinates(geolocation) ==
    Returned(geolocation["latitude"], geolocation["longitude"],
             FormatStr(DictGet(geolocation, "name", Some(<< "Unknown" >>)))
             \o (IF TruthyStr(DictGet(geolocation, "admin1", None))
                 THEN << ", " >> \o geolocation["admin1"].s ELSE <<>>)
             \o (IF TruthyStr(DictGet(geolocation, "country", None))
                 THEN << ", " >> \o geolocation["country"].s ELSE <<>>))

\* LocationNotFound replaced by a silent fall to the default location
SilentDefault(name) ==
    Returned(Num(DefaultLatitude), Num(DefaultLongitude), DefaultLocationInfo)

\* lines 584-586
LocationNotFound(name) == Raised(<< "Could not find location: " >> \o FormatStr(name))

\* IpBasedCoordinates reading a key the location dict does not have
IpBasedKeyError(geolocation) == Raised(<< "KeyError: 'lat'" >>)

\* lines 591-594: the location of the IP address
IpBasedCoordinates(geolocation) ==
    Returned(geolocation["latitude"], geolocation["longitude"],
             FormatStr(DictGet(geolocation, "city", Some(<< "Unknown" >>)))
             \o << ", " >>
             \o FormatStr(DictGet(geolocation, "country", Some(<< "Unknown" >>)))
             \o << " (IP-based)" >>)

\* DefaultCoordinates replaced by an error when every provider has failed
RaiseAllFailed == Raised(<< "All geolocation services failed" >>)

\* lines 595-598: the final fallback
DefaultCoordinates ==
    Returned(Num(DefaultLatitude), Num(DefaultLongitude), DefaultLocationInfo)

-----------------------------------------------------------------------------
(* GeolocationService: requests and parsers *)

\* get_public_ip, lines 116-129: [raised, ip] of one service's response
ParsePublicIp(service_url, response) ==
    IF response.status # "ok" THEN [raised |-> TRUE, ip |-> None]
    ELSE IF Contains(service_url, << "ipify" >>) \/ Contains(service_url, << "ipinfo" >>)
    THEN IF response.json
         THEN [raised |-> FALSE, ip |-> response.data.ip]
         ELSE [raised |-> TRUE, ip |-> None]
    ELSE [raised |-> FALSE, ip |-> Some(Strip(response.text))]

\* get_geolocation_from_ip, lines 154-157: the URL asked of one service
GeolocationUrl(service_url, ip) ==
    IF TruthyStr(ip) /\ ~Contains(service_url, << "ip-api.com" >>)
    THEN Replace(service_url, "/json/", << "/" >> \o ip.s \o << "/json/" >>)
    ELSE service_url

\* float(text): [raised, value]
ParseFloat(text) ==
    IF Len(text) = 1 /\ text[1] \in DOMAIN FloatValue
    THEN [raised |-> FALSE, value |-> Num(FloatValue[text[1]])]
    ELSE IF text = << "nan" >>
    THEN [raised |-> FALSE, value |-> NaN]
    ELSE [raised |-> TRUE, value |-> Null]

Location(city, region, country, latitude, longitude, ip) ==
    [city |-> city, region |-> region, country |-> country,
     latitude |-> latitude, longitude |-> longitude, ip |-> ip]

NoLocation == Location(None, None, None, Null, Null, None)

NoSingle == Single("idle", None, <<>>, FALSE, NoLocation)

\* a variant that reports the address ip-api.com echoes whatever the call
\* works with
ParseGeolocationEchoed(service_url, response, ip) ==
    LET data == response.data
        failed == [raised |-> TRUE, location |-> NoLocation]
    IN  IF response.status # "ok" \/ ~response.json THEN failed
        ELSE IF Contains(service_url, << "ipapi.co" >>)
        THEN [raised |-> FALSE,
              location |-> Location(data.city, data.region, data.country_name,
                                    data.latitude, data.longitude, data.ip)]
        ELSE IF Contains(service_url, << "ipinfo", ".io" >>)
        THEN LET loc == Split(IF data.loc.some THEN data.loc.s ELSE <<>>, ",")
                 lat == IF Len(loc) = 2 THEN ParseFloat(loc[1])
                        ELSE [raised |-> FALSE, value |-> Null]
                 lon == IF Len(loc) = 2 THEN ParseFloat(loc[2])
                        ELSE [raised |-> FALSE, value |-> Null]
             IN  IF lat.raised \/ lon.raised THEN failed
                 ELSE [raised |-> FALSE,
                       location |-> Location(data.city, data.region, data.country,
                                             lat.value, lon.value, data.ip)]
        ELSE IF Contains(service_url, << "ip-api.com" >>)
        THEN [raised |-> FALSE,
              location |-> Location(data.city, data.regionName, data.country,
                                    data.lat, data.lon,
                                    data.query)]
        ELSE failed

\* get_geolocation_from_ip, lines 161-195: [raised, location] of one response
ParseGeolocation(service_url, response, ip) ==
    LET data == response.data
        failed == [raised |-> TRUE, location |-> NoLocation]
    IN  IF response.status # "ok" \/ ~response.json THEN failed
        ELSE IF Contains(service_url, << "ipapi.co" >>)
        THEN [raised |-> FALSE,
              location |-> Location(data.city, data.region, data.country_name,
                                    data.latitude, data.longitude, data.ip)]
        ELSE IF Contains(service_url, << "ipinfo", ".io" >>)
        THEN LET loc == Split(IF data.loc.some THEN data.loc.s ELSE <<>>, ",")
                 lat == IF Len(loc) = 2 THEN ParseFloat(loc[1])
                        ELSE [raised |-> FALSE, value |-> Null]
                 lon == IF Len(loc) = 2 THEN ParseFloat(loc[2])
                        ELSE [raised |-> FALSE, value |-> Null]
             IN  IF lat.raised \/ lon.raised THEN failed
                 ELSE [raised |-> FALSE,
                       location |-> Location(data.city, data.region, data.country,
                                             lat.value, lon.value, data.ip)]
        ELSE IF Contains(service_url, << "ip-api.com" >>)
        THEN [raised |-> FALSE,
              location |-> Location(data.city, data.regionName, data.country,
                                    data.lat, data.lon,
                                    IF TruthyStr(ip) THEN ip ELSE data.query)]
        ELSE failed

\* line 198: the coordinates check
HasCoordinates(location) ==
    TruthyNum(location.latitude) /\ TruthyNum(location.longitude)

\* get_geolocation_from_name, lines 240-248: the first result as a location
LocationData(res) ==
    [name |-> res.name, country |-> res.country, latitude |-> res.latitude,
     longitude |-> res.longitude, timezone |-> res.timezone,
     admin1 |-> res.admin1]

\* BestMatch taking the last candidate instead of the first
LastMatch(results) == results[Len(results)]

\* line 240: the first/best match
BestMatch(results) == results[1]

\* SimpleName without the strip()
SimpleNameNoStrip(name) == Split(name, ",")[1]

\* lines 260-261: the simpler query
SimpleName(name) == Strip(Split(name, ",")[1])

-----------------------------------------------------------------------------
(* Control: each block runs to the next outbound call or to the return *)

Goto(pc2, name2, ip2, svc2, reqs2, resps2, log2, result2) ==
    /\ pc' = pc2
    /\ location_name' = name2
    /\ ip_address' = ip2
    /\ svc' = svc2
    /\ requests' = reqs2
    /\ responses' = resps2
    /\ log' = log2
    /\ result' = result2

\* get_coordinates returns or raises
Finish(value, reqs, resps, lg) ==
    Goto("done", location_name, ip_address, svc, reqs, resps, lg, value)

\* get_geolocation_from_name, lines 223-234: the request for one name
SendGeocoding(name, reqs, resps, lg) ==
    Goto("geocoding", name, ip_address, svc,
         Append(reqs, Request("geocoding", GeocodingUrl, Some(name), GeocodingTimeout)),
         resps, lg, NoResult)

\* TryGeolocation asking the first provider once more before the third
TryGeolocationRetrying(i, ip, reqs, resps, lg) ==
    IF i <= Len(geolocation_services)
    THEN Goto("geolocation", location_name, ip, i,
              Append(reqs, Request("geolocation",
                                   GeolocationUrl(geolocation_services[IF i = 2 THEN 1 ELSE i],
                                                  ip),
                                   None, GeolocationTimeout)),
              resps, lg, NoResult)
    ELSE Finish(DefaultCoordinates, reqs, resps,
                lg \o << Error("All geolocation services failed"),
                         Warning("Using default location (New York) as fallback") >>)

\* TryGeolocation going round the providers again after the last one failed,
\* instead of giving up
TryGeolocationStartingOver(i, ip, reqs, resps, lg) ==
    LET n == Len(geolocation_services)
    IN  IF i <= n
        THEN Goto("geolocation", location_name, ip, i,
                  Append(reqs, Request("geolocation",
                                       GeolocationUrl(geolocation_services[i], ip),
                                       None, GeolocationTimeout)),
                  resps, lg, NoResult)
        ELSE Goto("geolocation", location_name, ip, 1,
                  SubSeq(reqs, 1, Len(reqs) - n + 1),
                  SubSeq(resps, 1, Len(resps) - n),
                  SubSeq(lg, 1, Len(lg) - n), NoResult)

\* get_geolocation_from_ip, lines 152-161 and 216-217, with lines 591-598 of
\* get_coordinates: ask service i, or give up after the last one
TryGeolocation(i, ip, reqs, resps, lg) ==
    IF i <= Len(geolocation_services)
    THEN Goto("geolocation", location_name, ip, i,
              Append(reqs, Request("geolocation",
                                   GeolocationUrl(geolocation_services[i], ip),
                                   None, GeolocationTimeout)),
              resps, lg, NoResult)
    ELSE Finish(DefaultCoordinates, reqs, resps,
                lg \o << Error("All geolocation services failed"),
                         Warning("Using default location (New York) as fallback") >>)

\* UsePublicIp giving up when discovery found no address:
\* get_geolocation_from_ip returns None at once
UsePublicIpOrFail(public_ip, reqs, resps, lg) ==
    IF TruthyStr(public_ip)
    THEN TryGeolocation(1, public_ip, reqs, resps, lg)
    ELSE Finish(DefaultCoordinates, reqs, resps,
                lg \o << Error("No public IP address"),
                         Warning("Using default location (New York) as fallback") >>)

\* get_geolocation_from_ip, lines 144-149: what get_public_ip returned
UsePublicIp(public_ip, reqs, resps, lg) ==
    IF TruthyStr(public_ip)
    THEN TryGeolocation(1, public_ip, reqs, resps, lg)
    ELSE TryGeolocation(1, None, reqs, resps,
                        Append(lg, Warning("Using current location (no specific IP)")))

\* TryPublicIp asking the remaining services all at once instead of one
\* after the other
TryPublicIpAtOnce(i, reqs, resps, lg) ==
    IF i <= Len(public_ip_services)
    THEN Goto("public_ip", location_name, ip_address, i,
              reqs \o [ k \in 1..(Len(public_ip_services) - i + 1) |->
                          Request("public_ip", public_ip_services[i + k - 1], None,
                                  PublicIpTimeout) ],
              resps, lg, NoResult)
    ELSE UsePublicIp(None, reqs, resps,
                     Append(lg, Error("All public IP services failed")))

\* get_public_ip, lines 112-117 and 134-135: ask service i, or give up
TryPublicIp(i, reqs, resps, lg) ==
    IF i <= Len(public_ip_services)
    THEN Goto("public_ip", location_name, ip_address, i,
              Append(reqs, Request("public_ip", public_ip_services[i], None,
                                   PublicIpTimeout)),
              resps, lg, NoResult)
    ELSE UsePublicIp(None, reqs, resps,
                     Append(lg, Error("All public IP services failed")))

\* PrepareAddress without the private-address test: only an absent address
\* starts public-address discovery
PrepareAddressNoPrivateTest(client_ip, reqs, resps, lg) ==
    IF ~TruthyStr(client_ip)
    THEN TryPublicIp(1, reqs, resps, lg)
    ELSE TryGeolocation(1, client_ip, reqs, resps, lg)

\* get_geolocation_from_ip, lines 141-150: address preparation
PrepareAddress(client_ip, reqs, resps, lg) ==
    IF ~TruthyStr(client_ip)
    THEN TryPublicIp(1, reqs, resps, lg)
    ELSE LET private == is_private_ip(client_ip.s)
             lg2 == IF private.warned
                    THEN Append(lg, Warning("Invalid IP address format"))
                    ELSE lg
         IN  IF private.value
             THEN TryPublicIp(1, reqs, resps, lg2)
             ELSE TryGeolocation(1, client_ip, reqs, resps, lg2)

-----------------------------------------------------------------------------
(* Actions *)

\* ResolutionTier with the place name taking precedence over the coordinates
TierNameFirst(args) ==
    IF TruthyStr(args.location_name) THEN "name"
    ELSE IF args.latitude.t # "null" /\ args.longitude.t # "null" THEN "coordinates"
    ELSE "ip"

\* ResolutionTier taking an empty location_name as a name that was given
TierEmptyNameGiven(args) ==
    IF args.latitude.t # "null" /\ args.longitude.t # "null" THEN "coordinates"
    ELSE IF args.location_name.some THEN "name"
    ELSE "ip"

\* get_coordinates, lines 567, 573 and 588: which branch resolves the location
ResolutionTier(args) ==
    IF args.latitude.t # "null" /\ args.longitude.t # "null" THEN "coordinates"
    ELSE IF TruthyStr(args.location_name) THEN "name"
    ELSE "ip"

\* the geocoding providers a call about this name may meet
GeocodingProviders(name) ==
    [ (IF TruthyStr(name) THEN Queries(name.s) ELSE {}) -> GeocodingResponses ]

\* what the geocoding provider answers to a query: nothing is known to it
\* beyond the queries of its table
Answer(query) ==
    IF query \in DOMAIN geocoding THEN geocoding[query] ELSE JsonBody(EmptyData)

\* get_coordinates is called (lines 554-590), up to its first outbound call
get_coordinates(args, provider) ==
    /\ arguments' = args
    /\ geocoding' = provider
    /\ UNCHANGED <<geolocation_services, public_ip_services>>
    /\ LET tier == ResolutionTier(args)
       IN  IF tier = "coordinates"
           THEN Finish(ExplicitCoordinates(args.latitude, args.longitude),
                       <<>>, <<>>, <<>>)
           ELSE IF tier = "name"
           THEN SendGeocoding(args.location_name.s, <<>>, <<>>, <<>>)
           ELSE PrepareAddress(args.client_ip, <<>>, <<>>, <<>>)

\* GeocodingResponse retrying every name that stripping changes, with or
\* without a comma
GeocodingResponseRetryingPlain ==
    /\ pc = "geocoding"
    /\ UNCHANGED <<arguments, geocoding, geolocation_services, public_ip_services>>
    /\ UNCHANGED <<previous, other, forecast, tool, clock, single>>
    /\ LET response == Answer(location_name)
           resps == Append(responses, response)
       IN  IF response.status # "ok" \/ ~response.json
           THEN Finish(LocationNotFound(arguments.location_name), requests, resps,
                       log \o << Error("Error geocoding location name"),
                                 Error("Could not find location") >>)
           ELSE IF Len(response.data.results) > 0
           THEN Finish(GeocodedCoordinates(LocationData(BestMatch(response.data.results))),
                       requests, resps, log)
           ELSE IF SimpleName(location_name) # location_name
           THEN SendGeocoding(SimpleName(location_name), requests, resps,
                              Append(log, Warning("No results found for location")))
           ELSE Finish(LocationNotFound(arguments.location_name), requests, resps,
                       log \o << Warning("No results found for location"),
                                 Error("Could not find location") >>)

\* GeocodingResponse taking a failed request for a name with a comma as an
\* empty result, so that the simplified name is asked
GeocodingResponseRetryingFailure ==
    /\ pc = "geocoding"
    /\ UNCHANGED <<arguments, geocoding, geolocation_services, public_ip_services>>
    /\ UNCHANGED <<previous, other, forecast, tool, clock, single>>
    /\ LET response == Answer(location_name)
           resps == Append(responses, response)
       IN  IF (response.status # "ok" \/ ~response.json)
                  /\ "," \notin Range(location_name)
           THEN Finish(LocationNotFound(arguments.location_name), requests, resps,
                       log \o << Error("Error geocoding location name"),
                                 Error("Could not find location") >>)
           ELSE IF Len(response.data.results) > 0
           THEN Finish(GeocodedCoordinates(LocationData(BestMatch(response.data.results))),
                       requests, resps, log)
           ELSE IF "," \in Range(location_name)
                   /\ SimpleName(location_name) # location_name
           THEN SendGeocoding(SimpleName(location_name), requests, resps,
                              Append(log, Warning("No results found for location")))
           ELSE Finish(LocationNotFound(arguments.location_name), requests, resps,
                       log \o << Warning("No results found for location"),
                                 Error("Could not find location") >>)

\* the geocoding provider answers (get_geolocation_from_name, lines 235-269,
\* and get_coordinates, lines 576-586)
GeocodingResponse ==
    /\ pc = "geocoding"
    /\ UNCHANGED <<arguments, geocoding, geolocation_services, public_ip_services>>
    /\ UNCHANGED <<previous, other, forecast, tool, clock, single>>
    /\ LET response == Answer(location_name)
           resps == Append(responses, response)
       IN  IF response.status # "ok" \/ ~response.json
           THEN Finish(LocationNotFound(arguments.location_name), requests, resps,
                       log \o << Error("Error geocoding location name"),
                                 Error("Could not find location") >>)
           ELSE IF Len(response.data.results) > 0
           THEN Finish(GeocodedCoordinates(LocationData(BestMatch(response.data.results))),
                       requests, resps, log)
           ELSE IF "," \in Range(location_name)
                   /\ SimpleName(location_name) # location_name
           THEN SendGeocoding(SimpleName(location_name), requests, resps,
                              Append(log, Warning("No results found for location")))
           ELSE Finish(LocationNotFound(arguments.location_name), requests, resps,
                       log \o << Warning("No results found for location"),
                                 Error("Could not find location") >>)

\* PublicIpResponse keeping state in the service object: a service that
\* failed is taken out of the configured list
PublicIpResponseDropping(response) ==
    /\ UNCHANGED <<arguments, geocoding, geolocation_services>>
    /\ LET parsed == ParsePublicIp(public_ip_services[svc], response)
           resps == Append(responses, response)
       IN  IF parsed.raised
           THEN /\ public_ip_services' =
                      SubSeq(public_ip_services, 1, svc - 1)
                      \o SubSeq(public_ip_services, svc + 1, Len(public_ip_services))
                /\ TryPublicIp(svc + 1, requests, resps,
                               Append(log, Warning("Failed to get public IP")))
           ELSE /\ public_ip_services' = public_ip_services
                /\ UsePublicIp(parsed.ip, requests, resps, log)

\* a public-IP service answers (get_public_ip, lines 117-132)
PublicIpResponse(response) ==
    /\ UNCHANGED <<arguments, geocoding, geolocation_services, public_ip_services>>
    /\ LET parsed == ParsePublicIp(public_ip_services[svc], response)
           resps == Append(responses, response)
       IN  IF parsed.raised
           THEN TryPublicIp(svc + 1, requests, resps,
                            Append(log, Warning("Failed to get public IP")))
           ELSE UsePublicIp(parsed.ip, requests, resps, log)

\* GeolocationResponse keeping state in the service object: a provider that
\* did not give coordinates is moved to the end of the configured list
GeolocationResponseDemoting(response) ==
    /\ UNCHANGED <<arguments, geocoding, public_ip_services>>
    /\ LET parsed == ParseGeolocation(geolocation_services[svc], response, ip_address)
           resps == Append(responses, response)
           demoted == SubSeq(geolocation_services, 1, svc - 1)
                      \o SubSeq(geolocation_services, svc + 1, Len(geolocation_services))
                      \o << geolocation_services[svc] >>
       IN  IF parsed.raised
           THEN /\ geolocation_services' = demoted
                /\ TryGeolocation(svc + 1, ip_address, requests, resps,
                                  Append(log, Warning("Failed geolocation service")))
           ELSE IF HasCoordinates(parsed.location)
           THEN /\ geolocation_services' = geolocation_services
                /\ Finish(IpBasedCoordinates(parsed.location), requests, resps, log)
           ELSE /\ geolocation_services' = demoted
                /\ TryGeolocation(svc + 1, ip_address, requests, resps,
                                  Append(log, Warning("No coordinates")))

\* a geolocation service answers (get_geolocation_from_ip, lines 161-214)
GeolocationResponse(response) ==
    /\ UNCHANGED <<arguments, geocoding, geolocation_services, public_ip_services>>
    /\ LET parsed == ParseGeolocation(geolocation_services[svc], response, ip_address)
           resps == Append(responses, response)
       IN  IF parsed.raised
           THEN TryGeolocation(svc + 1, ip_address, requests, resps,
                               Append(log, Warning("Failed geolocation service")))
           ELSE IF HasCoordinates(parsed.location)
           THEN Finish(IpBasedCoordinates(parsed.location), requests, resps, log)
           ELSE TryGeolocation(svc + 1, ip_address, requests, resps,
                               Append(log, Warning("No coordinates")))

\* the caller has the outcome; the next request may come
NextRequest ==
    /\ pc = "done"
    /\ pc' = "idle"
    /\ arguments' = [location_name |-> None, latitude |-> Null,
                     longitude |-> Null, client_ip |-> None]
    /\ geocoding' = << >>
    /\ location_name' = <<>>
    /\ ip_address' = None
    /\ svc' = 0
    /\ requests' = <<>>
    /\ responses' = <<>>
    /\ log' = <<>>
    /\ result' = NoResult
    /\ previous' = NoPrevious
    /\ forecast' = NoForecast
    /\ UNCHANGED <<geolocation_services, public_ip_services, other, tool, clock, single>>

Init ==
    /\ pc = "idle"
    /\ arguments = [location_name |-> None, latitude |-> Null,
                    longitude |-> Null, client_ip |-> None]
    /\ geocoding = << >>
    /\ location_name = <<>>
    /\ ip_address = None
    /\ svc = 0
    /\ requests = <<>>
    /\ responses = <<>>
    /\ log = <<>>
    /\ result = NoResult
    /\ geolocation_services = GeolocationServices
    /\ public_ip_services = PublicIpServices
    /\ previous = NoPrevious
    /\ other = NoFrame
    /\ forecast = NoForecast
    /\ tool = NoTool
    /\ clock = NoClock
    /\ single = NoSingle

Arguments ==
    [location_name : LocationNameArgs, latitude : LatitudeArgs,
     longitude : LongitudeArgs, client_ip : ClientIpArgs]

\* a caller invokes get_coordinates with some arguments, against some provider
Call ==
    /\ pc = "idle"
    /\ \E args \in Arguments :
          \E provider \in GeocodingProviders(args.location_name) :
             get_coordinates(args, provider)
    /\ UNCHANGED <<previous, other, forecast, tool, clock, single>>

\* what a provider answers to the request in flight: any of its responses, or,
\* for a call made before against the same providers, what it answered then
Replayed(all) ==
    LET url == requests[Len(requests)].url
        asked == { k \in 1..Len(previous.responses) : previous.requests[k].url = url }
    IN  IF previous.valid /\ asked # {}
        THEN { previous.responses[k] : k \in asked }
        ELSE all

PublicIpAnswer ==
    /\ pc = "public_ip"
    /\ \E response \in Replayed(PublicIpResponses(svc)) : PublicIpResponse(response)
    /\ UNCHANGED <<previous, other, forecast, tool, clock, single>>

GeolocationAnswer ==
    /\ pc = "geolocation"
    /\ \E response \in Replayed(GeolocationResponses(svc)) : GeolocationResponse(response)
    /\ UNCHANGED <<previous, other, forecast, tool, clock, single>>

Next ==
    \/ Call
    \/ GeocodingResponse
    \/ PublicIpAnswer
    \/ GeolocationAnswer
    \/ NextRequest

Spec == Init /\ [][Next]_vars

\* the caller makes the call it has just made once more, with the same
\* arguments, the providers answering each URL as they answered it before
Repeat ==
    /\ pc = "done"
    /\ ~previous.valid
    /\ previous' = Kept(arguments, geocoding, requests, responses, log, result)
    /\ get_coordinates(arguments, geocoding)
    /\ UNCHANGED <<other, forecast, tool, clock, single>>

\* the calls that are made twice: of every tier and with every client_ip, the
\* place name being none, plain, or one with a comma, the coordinates being
\* both given or both absent
RepeatedNames == { None, Some(<< "a" >>), Some(<< "a", ",", " ", "b" >>) }
RepeatedArguments ==
    { args \in Arguments :
        /\ args.location_name \in RepeatedNames
        /\ (args.latitude = Null) = (args.longitude = Null) }

FirstCall ==
    /\ pc = "idle"
    /\ \E args \in RepeatedArguments :
          \E provider \in GeocodingProviders(args.location_name) :
             get_coordinates(args, provider)
    /\ UNCHANGED <<previous, other, forecast, tool, clock, single>>

NextRepeat ==
    \/ FirstCall
    \/ GeocodingResponse
    \/ PublicIpAnswer
    \/ GeolocationAnswer
    \/ Repeat
    \/ NextRequest

RepeatSpec == Init /\ [][NextRepeat]_vars

-----------------------------------------------------------------------------
(* Concurrent requests: coroutines of one event loop, sharing the module-level *)
(* service objects, each suspended at its awaits                               *)

\* the requests that run concurrently: of every tier, the client_ip absent,
\* private or public
ConcurrentArguments ==
    { args \in Arguments :
        /\ args.location_name \in { None, Some(<< "a" >>) }
        /\ (args.latitude = Null) = (args.longitude = Null)
        /\ args.client_ip \in { None, Some(PrivateAddress), Some(PublicAddress) } }

\* what the providers answer then: a timeout or a located answer
ConcurrentPublicIpResponses(i) ==
    { Timeout,
      IF i = 1 THEN JsonBody([EmptyData EXCEPT !.ip = Some(EchoedAddress)])
      ELSE TextBody(EchoedAddress \o << "\n" >>) }

ConcurrentGeolocationResponses(i) ==
    { Timeout,
      CASE i = 1 -> JsonBody(IpapiData(Num(377510), Num(-974800), Wichita))
        [] i = 2 -> JsonBody(IpinfoData(Some(<< "37.751", ",", "-97.48" >>), Wichita))
        [] OTHER -> JsonBody(IpApiComData(Num(377510), Num(-974800), None)) }

\* the frame of the running coroutine
CurrentFrame ==
    Frame(pc, arguments, geocoding, location_name, ip_address, svc, requests,
          responses, log, result, previous)

\* the event loop resumes a frame
Resume(frame) ==
    /\ arguments' = frame.arguments
    /\ geocoding' = frame.geocoding
    /\ previous' = frame.previous
    /\ Goto(frame.pc, frame.location_name, frame.ip_address, frame.svc,
            frame.requests, frame.responses, frame.log, frame.result)

\* a request arrives and runs alone
AloneCall ==
    /\ pc = "idle"
    /\ other = NoFrame
    /\ \E args \in ConcurrentArguments :
          \E provider \in GeocodingProviders(args.location_name) :
             get_coordinates(args, provider)
    /\ UNCHANGED <<previous, other, forecast, tool, clock, single>>

ConcurrentPublicIpAnswer ==
    /\ pc = "public_ip"
    /\ \E response \in Replayed(ConcurrentPublicIpResponses(svc)) :
          PublicIpResponse(response)
    /\ UNCHANGED <<previous, other, forecast, tool, clock, single>>

ConcurrentGeolocationAnswer ==
    /\ pc = "geolocation"
    /\ \E response \in Replayed(ConcurrentGeolocationResponses(svc)) :
          GeolocationResponse(response)
    /\ UNCHANGED <<previous, other, forecast, tool, clock, single>>

\* the request that ran alone is over; its outcome is kept, and the same
\* request will be made again
Keep ==
    /\ pc = "done"
    /\ ~previous.valid
    /\ other = NoFrame
    /\ pc' = "again"
    /\ previous' = Kept(arguments, geocoding, requests, responses, log, result)
    /\ UNCHANGED <<arguments, geocoding, location_name, ip_address, svc, requests,
                   responses, log, result, geolocation_services, public_ip_services,
                   other, forecast, tool, clock, single>>

\* the same request is made again, the providers answering it as before
Again ==
    /\ pc = "again"
    /\ get_coordinates(previous.arguments, previous.geocoding)
    /\ UNCHANGED <<previous, other, forecast, tool, clock, single>>

\* a second request arrives while the first is suspended: its coroutine starts
Spawn ==
    /\ pc # "idle"
    /\ previous.valid
    /\ other = NoFrame
    /\ other' = CurrentFrame
    /\ previous' = NoPrevious
    /\ \E args \in ConcurrentArguments :
          \E provider \in GeocodingProviders(args.location_name) :
             get_coordinates(args, provider)
    /\ UNCHANGED <<forecast, tool, clock, single>>

\* the event loop switches between the two coroutines at an await
Switch ==
    /\ other # NoFrame
    /\ other' = CurrentFrame
    /\ Resume(other)
    /\ UNCHANGED <<geolocation_services, public_ip_services, forecast, tool, clock, single>>

\* both requests are over
Retire ==
    /\ pc = "done"
    /\ other.pc = "done"
    /\ Resume(NoFrame)
    /\ other' = NoFrame
    /\ UNCHANGED <<geolocation_services, public_ip_services, forecast, tool, clock, single>>

NextConcurrent ==
    \/ AloneCall
    \/ GeocodingResponse
    \/ ConcurrentPublicIpAnswer
    \/ ConcurrentGeolocationAnswer
    \/ Keep
    \/ Again
    \/ Spawn
    \/ Switch
    \/ Retire

ConcurrentSpec == Init /\ [][NextConcurrent]_vars

-----------------------------------------------------------------------------
(* call_tool, get_weather_forecast: the days asked of get_forecast *)

\* arguments.get('days', 3) and the limits of the clamp
DefaultDays == 3
MinDays == 1
MaxForecastDays == 7

Min(a, b) == IF a <= b THEN a ELSE b
Max(a, b) == IF a >= b THEN a ELSE b

\* int(x) of a number: truncation towards zero
IntOf(x) == IF x.v >= 0 THEN x.v \div 10000 ELSE -((-x.v) \div 10000)

\* ForecastDays without the lower limit of the clamp
ForecastDaysNoFloor(days) ==
    Min(IF days = Null THEN DefaultDays ELSE IntOf(days), MaxForecastDays)

\* line 732: min(max(int(arguments.get('days', 3)), 1), 7)
ForecastDays(days) ==
    Min(Max(IF days = Null THEN DefaultDays ELSE IntOf(days), MinDays), MaxForecastDays)

\* the days argument: absent, or a number (scaled by 10^4 like every number)
DaysArgs == { Null } \cup { Num(h * 5000) : h \in (-2 * MaxDays)..(2 * MaxDays) }

\* the forecasts asked for: by coordinates or by a place name
ForecastArguments ==
    { args \in Arguments :
        /\ args.location_name \in { None, Some(<< "a" >>) }
        /\ args.client_ip = None
        /\ ResolutionTier(args) # "ip" }

\* call_tool is called with name = get_weather_forecast (lines 729-731)
ForecastCall ==
    /\ pc = "idle"
    /\ \E days \in DaysArgs : forecast' = Forecast(days, FALSE, 0)
    /\ \E args \in ForecastArguments :
          \E provider \in GeocodingProviders(args.location_name) :
             get_coordinates(args, provider)
    /\ UNCHANGED <<previous, other, tool, clock, single>>

\* get_coordinates has returned: lines 732-735
GetForecast ==
    /\ pc = "done"
    /\ result.status = "return"
    /\ ~forecast.requested
    /\ forecast' = Forecast(forecast.days, TRUE, ForecastDays(forecast.days))
    /\ UNCHANGED <<pc, arguments, geocoding, location_name, ip_address, svc, requests,
                   responses, log, result, geolocation_services, public_ip_services,
                   previous, other, tool, clock, single>>

\* call_tool returns its text: the forecast, or the error get_coordinates raised
ForecastReturn ==
    /\ pc = "done"
    /\ forecast.requested \/ result.status = "raise"
    /\ Resume(NoFrame)
    /\ forecast' = NoForecast
    /\ UNCHANGED <<geolocation_services, public_ip_services, other, tool, clock, single>>

NextForecast ==
    \/ ForecastCall
    \/ GeocodingResponse
    \/ GetForecast
    \/ ForecastReturn

ForecastSpec == Init /\ [][NextForecast]_vars

-----------------------------------------------------------------------------
(* Vocabulary of the properties *)

Running == pc # "idle"
Done == pc = "done"

BothCoordinates == arguments.latitude.t # "null" /\ arguments.longitude.t # "null"
NameGiven == arguments.location_name.some /\ arguments.location_name.s # <<>>
NameTier == Running /\ ~BothCoordinates /\ NameGiven
IpTier == Running /\ ~BothCoordinates /\ ~NameGiven

RequestsTo(api) == { i \in 1..Len(requests) : requests[i].api = api }
NoIpRequests == RequestsTo("public_ip") = {} /\ RequestsTo("geolocation") = {}

\* what precedes the first comma of a name, stripped of surrounding blanks
FirstCommaForm(name) ==
    LET first == CHOOSE k \in 1..Len(name) :
                    name[k] = "," /\ \A j \in 1..(k - 1) : name[j] # ","
    IN  Strip(SubSeq(name, 1, first - 1))

\* the provider has a candidate / has no candidate for a query
HasMatch(query) ==
    /\ geocoding[query].status = "ok"
    /\ geocoding[query].data.results # <<>>
NoMatch(query) == ~HasMatch(query)

NotFoundMessage == << "Could not find location: " >> \o arguments.location_name.s

\* a geolocation provider's answer that is a failure: timeout, HTTP error,
\* unparsable body, or a body without coordinates
ProviderFailed(response) ==
    \/ response.status \in { "timeout", "http_error" }
    \/ ~response.json
    \/ /\ response.data.latitude = Null /\ response.data.longitude = Null
       /\ response.data.lat = Null /\ response.data.lon = Null
       /\ (~response.data.loc.some \/ "," \notin Range(response.data.loc.s))

EveryProviderFailed ==
    /\ Cardinality(RequestsTo("geolocation")) = Len(geolocation_services)
    /\ \A i \in RequestsTo("geolocation") :
          i <= Len(responses) /\ ProviderFailed(responses[i])

-----------------------------------------------------------------------------
(* Properties *)

\* C1: when both latitude and longitude are supplied, get_coordinates returns
\* exactly those two values with the label 'Coordinates: <lat>, <lon>',
\* whatever location_name and client_ip are, and issues no outbound call.
C1_ExplicitCoordinates ==
    (Running /\ BothCoordinates) =>
        /\ Done
        /\ requests = <<>>
        /\ result.status = "return"
        /\ result.latitude = arguments.latitude
        /\ result.longitude = arguments.longitude
        /\ result.location_info =
              << "Coordinates: ", NumberText[arguments.latitude.v], ", ",
                 NumberText[arguments.longitude.v] >>

C1_Witness ==
    /\ Done /\ BothCoordinates /\ NameGiven
    /\ arguments.client_ip = Some(PublicAddress)
    /\ arguments.longitude = Num(0)
    /\ result.status = "return"

\* C2: with a place name and not both coordinates, when the geocoder has no
\* match for the name nor for its comma-truncated form, get_coordinates raises
\* could-not-find-location and issues no public-IP or IP-geolocation call,
\* even when a client_ip is supplied.
C2_NotFoundIsFinal ==
    /\ NameTier => NoIpRequests
    /\ ( /\ NameTier /\ Done
         /\ NoMatch(arguments.location_name.s)
         /\ ("," \in Range(arguments.location_name.s)
               => NoMatch(FirstCommaForm(arguments.location_name.s))) )
       => /\ result.status = "raise"
          /\ result.error = NotFoundMessage

C2_Witness ==
    /\ NameTier /\ Done
    /\ "," \in Range(arguments.location_name.s)
    /\ arguments.client_ip = Some(PublicAddress)
    /\ Len(requests) = 2
    /\ result.status = "raise"

\* C3: without both coordinates and without a place name, when every
\* IP-geolocation provider fails, get_coordinates returns the default location
\* (40.7128, -74.0060, 'New York, USA (default fallback)'); on this path it
\* never raises, whatever client_ip is.
C3_DefaultFallback ==
    /\ (IpTier /\ Done) => result.status = "return"
    /\ (IpTier /\ Done /\ EveryProviderFailed) =>
          /\ result.latitude = Num(407128)
          /\ result.longitude = Num(-740060)
          /\ result.location_info = << "New York, USA (default fallback)" >>

C3_Witness ==
    /\ IpTier /\ Done /\ EveryProviderFailed
    /\ arguments.client_ip = Some(PublicAddress)
    /\ responses[1] = Timeout
    /\ result.location_info = << "New York, USA (default fallback)" >>

\* the client address is a private one (RFC 1918 or loopback)
PrivateClient ==
    IpTier /\ arguments.client_ip \in { Some(PrivateAddress), Some(LoopbackAddress) }

\* discovery has been gone through: the geolocation loop has started
Discovered == pc \in { "geolocation", "done" }

\* a request that carries no address at all: the service's own URL
Addressless(i) ==
    \E k \in 1..Len(geolocation_services) : requests[i].url = geolocation_services[k]

\* public-address discovery precedes every geolocation request
DiscoveryFirst ==
    /\ requests # <<>>
    /\ requests[1].api = "public_ip"
    /\ \A i \in RequestsTo("geolocation") : \A j \in RequestsTo("public_ip") : j < i

NeverThePrivateAddress ==
    \A i \in RequestsTo("geolocation") :
        ~Contains(requests[i].url, arguments.client_ip.s)

NoResults(query) ==
    /\ geocoding[query].status = "ok"
    /\ geocoding[query].json
    /\ geocoding[query].data.results = <<>>

CommaName == NameTier /\ "," \in Range(arguments.location_name.s)

\* the names asked of the geocoding provider, in order
GeocodingQueries == [ i \in 1..Len(requests) |-> requests[i].params.s ]

\* C5 as stated: for a name with a comma, when the provider has no result for
\* the full name but has a match for a shorter comma-truncated form of it,
\* get_geolocation_from_name returns that match instead of not-found.
C5_AsStated ==
    ( /\ CommaName /\ Done
      /\ NoResults(arguments.location_name.s)
      /\ \E form \in TruncatedForms(arguments.location_name.s) : HasMatch(form) )
    => result.status = "return"

\* C5 (amended): for a name with a comma, when the provider answers the full
\* name with no results but has a match for what precedes the first comma
\* (stripped), get_geolocation_from_name retries once, with that part, and
\* returns its top match instead of not-found.
C5_FirstSegmentRetry ==
    ( /\ CommaName /\ Done
      /\ NoResults(arguments.location_name.s)
      /\ HasMatch(FirstCommaForm(arguments.location_name.s)) )
    => LET form == FirstCommaForm(arguments.location_name.s)
           top == geocoding[form].data.results[1]
       IN  /\ GeocodingQueries = << arguments.location_name.s, form >>
           /\ result.status = "return"
           /\ result.latitude = top.latitude
           /\ result.longitude = top.longitude

C5_Witness ==
    /\ CommaName /\ Done
    /\ arguments.location_name.s = << " ", "b", ",", "a", ",", "a" >>
    /\ NoResults(arguments.location_name.s)
    /\ NoMatch(<< "b", ",", "a" >>)
    /\ GeocodingQueries = << arguments.location_name.s, << "b" >> >>
    /\ result.status = "return"
    /\ result.latitude = Num(515074)

\* C6: get_coordinates either returns a (latitude, longitude, label) triple or
\* raises could-not-find-location; that error is raised only when a non-empty
\* location_name was supplied without both coordinates, and nothing else
\* escapes.
C6_OnlyNotFoundEscapes ==
    Done =>
        /\ result.status \in { "return", "raise" }
        /\ result.status = "raise" => (NameTier /\ result.error = NotFoundMessage)
        /\ result.status = "return" => result.location_info # <<>>

C6_Witness ==
    /\ Done /\ NameTier
    /\ arguments.latitude = Num(515074)
    /\ responses = << Timeout >>
    /\ result.status = "raise"
    /\ result.error = NotFoundMessage

\* C7: every triple returned by get_coordinates carries a non-null numeric
\* latitude and longitude; a geocoding candidate lacking one is treated as
\* not-found, never passed on as a partial success.
C7_CoordinatesPresent ==
    (Done /\ result.status = "return") =>
        /\ result.latitude.t = "num"
        /\ result.longitude.t = "num"

\* the client address does not parse as an IP address
MalformedClient == IpTier /\ arguments.client_ip = Some(MalformedAddress)

\* C8: a client_ip that does not parse as an IP address is treated as no
\* usable client IP: public-address discovery is invoked as for an absent
\* address, the string is never placed in a geolocation request, and no
\* exception reaches the caller.
C8_MalformedIsNoAddress ==
    MalformedClient =>
        /\ requests # <<>> /\ requests[1].api = "public_ip"
        /\ \A i \in RequestsTo("geolocation") :
              ~Contains(requests[i].url, MalformedAddress)
        /\ result.status # "raise"

\* the classifier has been applied to the client address of this call
Classified == IpTier /\ arguments.client_ip.some /\ arguments.client_ip.s # <<>>

\* C9: the classifier never raises and is three-way: Private for private and
\* loopback addresses, Public for every other valid address, and for a
\* malformed string an outcome that differs from the one of a public address.
C9_ThreeWayClassifier ==
    Classified =>
        LET outcome == is_private_ip(arguments.client_ip.s).value
            public == is_private_ip(PublicAddress).value
        IN  /\ arguments.client_ip.s \in { PrivateAddress, LoopbackAddress }
                 => outcome = TRUE
            /\ arguments.client_ip.s = PublicAddress => outcome = FALSE
            /\ arguments.client_ip.s = MalformedAddress => outcome # public

\* the top candidate of the geocoding answer the call ended on
TopCandidate == responses[Len(responses)].data.results[1]

\* C10: with a place name and not both coordinates, when geocoding succeeds
\* get_coordinates returns the top candidate's latitude and longitude with a
\* label of name, then admin region when present, then country when present,
\* and calls no public-IP or IP-geolocation provider, even with a client_ip.
C10_GeocodedResult ==
    (NameTier /\ Done /\ result.status = "return") =>
        /\ NoIpRequests
        /\ result.latitude = TopCandidate.latitude
        /\ result.longitude = TopCandidate.longitude
        /\ result.location_info =
              (IF TopCandidate.name.some THEN TopCandidate.name.s ELSE << "None" >>)
              \o (IF TopCandidate.admin1.some /\ TopCandidate.admin1.s # <<>>
                  THEN << ", " >> \o TopCandidate.admin1.s ELSE <<>>)
              \o (IF TopCandidate.country.some /\ TopCandidate.country.s # <<>>
                  THEN << ", " >> \o TopCandidate.country.s ELSE <<>>)

C10_Witness ==
    /\ NameTier /\ Done
    /\ arguments.client_ip = Some(PrivateAddress)
    /\ Len(responses[Len(responses)].data.results) = 2
    /\ result.location_info =
          << "Springfield", ", ", "Illinois", ", ", "United States" >>
    /\ result.latitude = Num(515074)

\* the call in progress is the second of two identical calls
Repeated == previous.valid /\ arguments = previous.arguments

\* C11: calling get_coordinates twice with identical arguments against the same
\* provider responses gives identical results (through identical requests),
\* and no call changes the configured provider lists of the service.
C11_Idempotent ==
    /\ geolocation_services = GeolocationServices
    /\ public_ip_services = PublicIpServices
    /\ (Done /\ Repeated) =>
          /\ result = previous.result
          /\ requests = previous.requests
          /\ responses = previous.responses

C11_Witness ==
    /\ Done /\ Repeated /\ IpTier
    /\ arguments.client_ip = Some(PrivateAddress)
    /\ Cardinality(RequestsTo("public_ip")) = 2
    /\ Cardinality(RequestsTo("geolocation")) = 2
    /\ result = previous.result
    /\ result.latitude = Num(377510)

\* a second request is in progress or over
Concurrent == other # NoFrame

\* C12: when requests are resolved concurrently through the shared service
\* objects, in every interleaving of their outbound calls the result of a
\* request equals the result it got when run alone against the same provider
\* responses, and the shared provider lists are never written.
C12_Independent ==
    /\ geolocation_services = GeolocationServices
    /\ public_ip_services = PublicIpServices
    /\ (Done /\ previous.valid) =>
          /\ result = previous.result
          /\ requests = previous.requests
    /\ (other.pc = "done" /\ other.previous.valid) =>
          /\ other.result = other.previous.result
          /\ other.requests = other.previous.requests

C12_Witness ==
    /\ Done /\ previous.valid /\ Concurrent
    /\ arguments.client_ip = Some(PrivateAddress)
    /\ Cardinality(RequestsTo("public_ip")) = 3
    /\ Cardinality(RequestsTo("geolocation")) = 2
    /\ result = previous.result
    /\ other.pc = "geolocation"
    /\ other.arguments.client_ip = None
    /\ Len(other.requests) = 4
    /\ other.responses[1] = Timeout

\* the location came from an address found by public-address discovery
FromDiscovery == IpTier /\ RequestsTo("public_ip") # {} /\ ip_address.some

\* the results get_coordinates can return for the supplied client_ip 8.8.8.8:
\* those of the providers' answers that carry coordinates
ClientIpResults ==
    UNION { { IpBasedCoordinates(
                  ParseGeolocation(GeolocationServices[i], r, Some(PublicAddress)).location) :
              r \in { a \in GeolocationResponses(i) :
                        LET parsed == ParseGeolocation(GeolocationServices[i], a,
                                                       Some(PublicAddress))
                        IN  ~parsed.raised /\ HasCoordinates(parsed.location) } } :
            i \in 1..Len(GeolocationServices) }

\* C13: every successful resolution identifies the tier that produced it; in
\* particular a result obtained from an auto-detected public address is never
\* a result that a supplied routable client_ip produces.
C13_OriginIdentified ==
    (Done /\ FromDiscovery /\ result.status = "return") =>
        result \notin ClientIpResults

\* C14: for every number given as days, get_weather_forecast asks the forecast
\* for min(max(int(days), 1), 7) days: 1 below 2, 7 from 7 on, the whole part
\* of days in between; always within 1..7, and 3 when days is omitted.
C14_DaysClamped ==
    forecast.requested =>
        LET n == forecast.forecast_days
            d == forecast.days.v
        IN  /\ n \in 1..7
            /\ forecast.days = Null => n = 3
            /\ (forecast.days # Null /\ d < 20000) => n = 1
            /\ (forecast.days # Null /\ d >= 70000) => n = 7
            /\ (forecast.days # Null /\ d >= 20000 /\ d < 70000) =>
                  (n * 10000 <= d /\ d < (n + 1) * 10000)

C14_Witness ==
    /\ forecast.requested
    /\ forecast.days = Num(-25000)
    /\ forecast.forecast_days = 1
    /\ NameTier

\* the requests of public-address discovery are the first of the call; the
\* requests to the geolocation providers follow them
PublicIpCount == Cardinality(RequestsTo("public_ip"))
GeolocationCount == Cardinality(RequestsTo("geolocation"))

\* request k has been answered
Answered(k) == k <= Len(responses)

\* the address the body of a public-IP service carries, in the format of the
\* service: JSON with an ip member for the first, bare text for the others
CarriedAddress(i, response) ==
    IF response.status # "ok" THEN None
    ELSE IF i = 1
    THEN (IF response.json /\ TruthyStr(response.data.ip) THEN response.data.ip ELSE None)
    ELSE IF ValidAddress(Strip(response.text)) THEN Some(Strip(response.text))
    ELSE None

\* a failure of a public-IP service: a timeout, a non-2xx status, or a 2xx
\* response whose body is malformed or carries no address
PublicIpFailure(i, response) == ~CarriedAddress(i, response).some

\* C15: get_public_ip tries its services strictly in configured order, none
\* twice, and after any failure of a service (timeout, non-2xx status, a 2xx
\* body that is malformed or carries no address) it goes on to the next one.
C15_AdvancesOnFailure ==
    IpTier =>
        /\ PublicIpCount <= Len(PublicIpServices)
        /\ \A k \in 1..PublicIpCount :
              /\ requests[k].api = "public_ip"
              /\ requests[k].url = PublicIpServices[k]
              /\ (Answered(k) /\ PublicIpFailure(k, responses[k])
                    /\ k < Len(PublicIpServices))
                  => (Len(requests) > k /\ requests[k + 1].api = "public_ip")

\* get_public_ip has returned: the geolocation loop has started after discovery
DiscoveryOver == IpTier /\ PublicIpCount > 0 /\ Discovered

AllPublicIpFailedEntries ==
    { i \in 1..Len(log) : log[i] = Error("All public IP services failed") }

\* C16: get_public_ip returns the address of the earliest service that yields
\* one; it returns no address only after every configured service has been
\* tried and has failed, and then exactly one error-level entry is logged.
C16_EarliestAddress ==
    DiscoveryOver =>
        /\ ip_address.some =>
              /\ ip_address = CarriedAddress(PublicIpCount, responses[PublicIpCount])
              /\ \A k \in 1..(PublicIpCount - 1) : PublicIpFailure(k, responses[k])
        /\ ~ip_address.some =>
              /\ PublicIpCount = Len(PublicIpServices)
              /\ \A k \in 1..PublicIpCount : PublicIpFailure(k, responses[k])
              /\ Cardinality(AllPublicIpFailedEntries) = 1

\* the geolocation provider asked by request k
ProviderOf(k) == k - PublicIpCount

\* the latitude and longitude a provider's body carries, in the schema of the
\* provider (ipapi.co: latitude/longitude; ipinfo.io: loc; ip-api.com: lat/lon)
CarriedCoordinates(i, response) ==
    LET none == [latitude |-> Null, longitude |-> Null]
    IN  IF response.status # "ok" \/ ~response.json THEN none
        ELSE IF i = 1
        THEN [latitude |-> response.data.latitude, longitude |-> response.data.longitude]
        ELSE IF i = 2
        THEN LET loc == Split(IF response.data.loc.some THEN response.data.loc.s
                              ELSE <<>>, ",")
             IN  IF Len(loc) = 2 /\ ~ParseFloat(loc[1]).raised /\ ~ParseFloat(loc[2]).raised
                 THEN [latitude |-> ParseFloat(loc[1]).value,
                       longitude |-> ParseFloat(loc[2]).value]
                 ELSE none
        ELSE [latitude |-> response.data.lat, longitude |-> response.data.lon]

\* both are present, finite numbers (0 included)
FiniteCoordinates(c) == c.latitude.t = "num" /\ c.longitude.t = "num"

\* C17: every location returned by get_geolocation_from_ip carries a non-null,
\* finite latitude and longitude; a response lacking them, a timeout, an HTTP
\* error or a parse error is a non-fatal miss after which the next provider
\* is tried.
C17_FiniteCoordinates ==
    IpTier =>
        /\ result.status # "raise"
        /\ (Done /\ GeolocationCount > 0 /\ result # DefaultCoordinates) =>
              FiniteCoordinates(result)
        /\ \A k \in RequestsTo("geolocation") :
              (Answered(k) /\ ProviderFailed(responses[k])
                 /\ ProviderOf(k) < Len(GeolocationServices))
              => (Len(requests) > k /\ requests[k + 1].api = "geolocation")

\* C18: a provider response whose latitude and longitude are both present
\* finite numbers is accepted as a success, a latitude or longitude of 0
\* included: the call ends there with those coordinates.
C18_ZeroAccepted ==
    IpTier =>
        \A k \in RequestsTo("geolocation") :
            (Answered(k) /\ FiniteCoordinates(CarriedCoordinates(ProviderOf(k), responses[k])))
            => /\ Done
               /\ k = Len(requests)
               /\ result.latitude = CarriedCoordinates(ProviderOf(k), responses[k]).latitude
               /\ result.longitude = CarriedCoordinates(ProviderOf(k), responses[k]).longitude

\* discovery was needed (client_ip absent or private) and every public-IP
\* service has failed
EveryPublicIpFailed ==
    /\ IpTier
    /\ ~TruthyStr(arguments.client_ip) \/ PrivateClient
    /\ PublicIpCount = Len(PublicIpServices)
    /\ \A k \in 1..PublicIpCount : Answered(k) /\ PublicIpFailure(k, responses[k])

\* a provider's answer that gives a location: finite coordinates, none of them 0
Located(i, response) ==
    /\ FiniteCoordinates(CarriedCoordinates(i, response))
    /\ CarriedCoordinates(i, response).latitude.v # 0
    /\ CarriedCoordinates(i, response).longitude.v # 0

\* C19: when client_ip is absent or private and every public-IP service has
\* failed, get_geolocation_from_ip does not fail there: it goes on to the
\* geolocation providers, asked with their address-less URLs, returns the
\* location one of them gives, and fails only after all of them were asked.
C19_GoesOnWithoutAddress ==
    EveryPublicIpFailed =>
        /\ ~ip_address.some
        /\ GeolocationCount >= 1
        /\ \A k \in RequestsTo("geolocation") :
              requests[k].url = GeolocationServices[ProviderOf(k)]
        /\ (Done /\ \E k \in RequestsTo("geolocation") :
                        Located(ProviderOf(k), responses[k]))
             => /\ result.status = "return"
                /\ result # DefaultCoordinates
        /\ (Done /\ result = DefaultCoordinates)
             => GeolocationCount = Len(GeolocationServices)

C19_Witness ==
    /\ EveryPublicIpFailed /\ Done
    /\ arguments.client_ip = Some(LoopbackAddress)
    /\ responses[3] = TextBody(<< "\n" >>)
    /\ GeolocationCount = 2
    /\ requests[5].url = << "https://", "ipinfo", ".io", "/json" >>
    /\ result.location_info = << "Wichita", ", ", "US", " (IP-based)" >>

\* a provider's answer whose coordinates get_geolocation_from_ip accepts
Accepted(i, response) == HasCoordinates(CarriedCoordinates(i, response))

\* C20: in one call of get_geolocation_from_ip the providers queried are a
\* prefix of the configured list (ipapi.co, ipinfo.io, ip-api.com), in order:
\* each is queried at most once, a failed one is never asked again, and none
\* is queried after one that gave accepted coordinates.
C20_ProviderPrefix ==
    IpTier =>
        /\ GeolocationCount <= Len(GeolocationServices)
        /\ RequestsTo("geolocation") = (PublicIpCount + 1)..Len(requests)
        /\ \A k \in RequestsTo("geolocation") :
              /\ Contains(requests[k].url,
                          << << "ipapi.co" >>, << "ipinfo", ".io" >>,
                             << "ip-api.com" >> >>[ProviderOf(k)])
              /\ \A j \in RequestsTo("geolocation") :
                    j # k => requests[j].url # requests[k].url
              /\ (Answered(k) /\ Accepted(ProviderOf(k), responses[k]))
                  => (Done /\ k = Len(requests))

C20_Witness ==
    /\ IpTier /\ Done
    /\ arguments.client_ip = Some(PublicAddress)
    /\ GeolocationCount = 3
    /\ responses[1] = JsonBody(IpapiData(Num(0), Num(-974800), None))
    /\ responses[2] = HttpError
    /\ Located(3, responses[3])
    /\ result.latitude = Num(377510)

\* ---------------------------------------------------------------------------
\* The address get_geolocation_from_ip works with, once it is settled: the
\* supplied client_ip or the one found by get_public_ip.
KnownAddress == IpTier /\ Discovered /\ TruthyStr(ip_address)

CallerOnly(k) == Contains(geolocation_services[ProviderOf(k)], << "ip-api.com" >>)

\* C21: with a known address, every geolocation request to a provider other
\* than the caller-only ip-api.com goes to a URL that contains the address.
C21_AddressInUrl ==
    KnownAddress =>
        \A k \in RequestsTo("geolocation") :
            ~CallerOnly(k) => Contains(requests[k].url, ip_address.s)

\* ---------------------------------------------------------------------------
\* The source address of the location get_geolocation_from_ip builds from the
\* answer to request k (the 'ip' member of the location).
SourceIp(k) ==
    ParseGeolocation(geolocation_services[ProviderOf(k)], responses[k], ip_address).location.ip

\* C22: the request to the caller-only provider ip-api.com goes to the
\* provider's own URL, which never contains the address; the source address
\* of its location is the address the call works with when there is one, and
\* the address the provider echoes (query) only when there is none.
C22_CallerOnlySourceIp ==
    IpTier =>
        \A k \in RequestsTo("geolocation") :
            CallerOnly(k) =>
                /\ requests[k].url = geolocation_services[ProviderOf(k)]
                /\ TruthyStr(ip_address) => ~Contains(requests[k].url, ip_address.s)
                /\ (Answered(k) /\ Accepted(ProviderOf(k), responses[k])) =>
                       SourceIp(k) = IF TruthyStr(ip_address) THEN ip_address
                                     ELSE responses[k].data.query

\* ip-api.com located the caller while the call worked with the supplied
\* public address: the location carries the supplied address, not the echo
C22_Witness ==
    /\ Done
    /\ IpTier
    /\ arguments.client_ip = Some(PublicAddress)
    /\ \E k \in RequestsTo("geolocation") :
           /\ CallerOnly(k)
           /\ Answered(k)
           /\ Accepted(ProviderOf(k), responses[k])
           /\ responses[k].data.query = Some(EchoedAddress)
           /\ SourceIp(k) = Some(PublicAddress)
           /\ result.status = "return"

\* ---------------------------------------------------------------------------
\* get_geolocation_from_ip, line 142: discovery is asked for when client_ip is
\* absent (or empty) or a private address
NeedsDiscovery ==
    \/ ~TruthyStr(arguments.client_ip)
    \/ arguments.client_ip \in { Some(PrivateAddress), Some(LoopbackAddress) }

\* one run of get_public_ip, before any geolocation request: every public-IP
\* request precedes every geolocation request and no service is asked twice
OneDiscoveryFirst ==
    /\ \A i \in RequestsTo("geolocation") : \A j \in RequestsTo("public_ip") : j < i
    /\ \A i, j \in RequestsTo("public_ip") : requests[i].url = requests[j].url => i = j

RoutableClient == IpTier /\ arguments.client_ip = Some(PublicAddress)

\* C23: public-address discovery runs at most once per call of
\* get_geolocation_from_ip, before the first geolocation request, and only
\* when client_ip is absent or private; with a routable public client_ip no
\* public-IP service is called and the geolocation requests use the supplied
\* address (all but the caller-only provider carry it in the URL).
C23_DiscoveryOnlyWhenNeeded ==
    /\ RequestsTo("public_ip") # {} => (IpTier /\ NeedsDiscovery)
    /\ OneDiscoveryFirst
    /\ RoutableClient =>
           /\ RequestsTo("public_ip") = {}
           /\ ip_address = arguments.client_ip
           /\ \A k \in RequestsTo("geolocation") :
                  ~CallerOnly(k) => Contains(requests[k].url, arguments.client_ip.s)

-----------------------------------------------------------------------------
(* get_geolocation_from_name on its own: every way the geocoding request can
   fail, under the assumption that every request is answered or times out *)

\* a body that parses as JSON but is not an object: data.get raises
ListBody == [status |-> "ok", json |-> FALSE, text |-> << "[...]" >>, data |-> EmptyData]

\* the request fails: timeout, HTTP error status, unparsable body, body of an
\* unexpected shape
GeocodingFailures == { Timeout, HttpError, TextBody(<< "<html>" >>), ListBody }

GeocodingAnswers ==
    GeocodingFailures \cup
    { JsonBody(EmptyData),
      JsonBody([EmptyData EXCEPT !.results = << BareCandidate >>]) }

AnsweringProviders(name) == [ Queries(name.s) -> GeocodingAnswers ]

NameArguments ==
    { args \in Arguments :
        /\ TruthyStr(args.location_name)
        /\ args.latitude = Null
        /\ args.longitude = Null
        /\ args.client_ip = None }

NameCall ==
    /\ pc = "idle"
    /\ \E args \in NameArguments :
          \E provider \in AnsweringProviders(args.location_name) :
             get_coordinates(args, provider)
    /\ UNCHANGED <<previous, other, forecast, tool, clock, single>>

NextGeocoding ==
    \/ NameCall
    \/ GeocodingResponse
    \/ NextRequest

\* client.get(..., timeout=10.0): the request in flight is answered or times out
GeocodingSpec == Init /\ [][NextGeocoding]_vars /\ WF_vars(GeocodingResponse)

Commas(name) == Cardinality({ k \in 1..Len(name) : name[k] = "," })

\* C24: get_geolocation_from_name terminates for every input: a simplified
\* retry is made only when the provider returned no results for a name with a
\* comma, each retry asks a strictly shorter string, a comma-free name is never
\* retried, the queries of one call are at most one plus the commas of the
\* input, and the call always ends.
C24_RetryTerminates ==
    /\ [](NameTier =>
            /\ Len(requests) <= 1 + Commas(arguments.location_name.s)
            /\ GeocodingQueries[1] = arguments.location_name.s
            /\ \A i \in 2..Len(requests) :
                  /\ NoResults(GeocodingQueries[i - 1])
                  /\ "," \in Range(GeocodingQueries[i - 1])
                  /\ Len(GeocodingQueries[i]) < Len(GeocodingQueries[i - 1]))
    /\ (pc = "geocoding" ~> Done)

\* a name with two commas was asked, found nothing, and was asked once more
\* in its simplified form before the call ended
C24_Witness ==
    /\ NameTier /\ Done
    /\ Commas(arguments.location_name.s) = 2
    /\ Len(requests) = 2
    /\ NoResults(GeocodingQueries[1])
    /\ Len(GeocodingQueries[2]) < Len(GeocodingQueries[1])

\* ---------------------------------------------------------------------------
\* the geocoding request k failed: timeout, HTTP error status, or a body that
\* cannot be read as the expected JSON object
FailedGeocoding(k) == responses[k].status # "ok" \/ ~responses[k].json

\* C25: when the geocoding request fails, get_geolocation_from_name returns
\* not-found without raising and without the simplified retry: the failed
\* request is the last of the call, and the caller gets the could-not-find
\* error of a name with no match.
C25_FailureIsNotFound ==
    NameTier =>
        \A k \in 1..Len(responses) :
            FailedGeocoding(k) =>
                /\ Len(requests) = k
                /\ Done
                /\ result = Raised(NotFoundMessage)

\* the request for a name with a comma was answered with a body of the wrong
\* shape; the simplified name, which the provider knows, was never asked
C25_Witness ==
    /\ CommaName /\ Done
    /\ responses = << ListBody >>
    /\ HasMatch(FirstCommaForm(arguments.location_name.s))
    /\ Len(requests) = 1
    /\ result = Raised(NotFoundMessage)

\* ---------------------------------------------------------------------------
ExactlyOneCoordinate == (arguments.latitude.t = "null") # (arguments.longitude.t = "null")

WithoutCoordinates == [arguments EXCEPT !.latitude = Null, !.longitude = Null]

EmptyName == arguments.location_name = Some(<<>>)

\* the first outbound call of the IP branch: discovery, or the first provider
FirstIpRequest ==
    /\ requests # <<>>
    /\ requests[1].api = IF NeedsDiscovery THEN "public_ip" ELSE "geolocation"

\* C26: with exactly one of latitude and longitude, get_coordinates ignores
\* the value and resolves as if neither had been given: by the place name if
\* it is non-empty, otherwise by IP; an empty location_name is treated as
\* absent: IP-based resolution, no geocoding call, no not-found error.
C26_OneCoordinateIgnored ==
    /\ (Running /\ ExactlyOneCoordinate) =>
          /\ ResolutionTier(arguments) = ResolutionTier(WithoutCoordinates)
          /\ NameGiven =>
                /\ requests # <<>>
                /\ requests[1].api = "geocoding"
                /\ requests[1].params = arguments.location_name
          /\ ~NameGiven => FirstIpRequest /\ RequestsTo("geocoding") = {}
          /\ (Done /\ result.status = "return") =>
                result.location_info[1] # "Coordinates: "
    /\ (Running /\ ~BothCoordinates /\ EmptyName) =>
          /\ FirstIpRequest
          /\ RequestsTo("geocoding") = {}
          /\ Done => result.status = "return"

\* a call with a latitude alone and an empty place name ended with a location
\* found by IP
C26_Witness ==
    /\ Done
    /\ ExactlyOneCoordinate
    /\ arguments.latitude = Num(515074)
    /\ EmptyName
    /\ GeolocationCount > 0
    /\ result.status = "return"
    /\ result.latitude = Num(377510)

-----------------------------------------------------------------------------
(* get_coordinates under the assumption that every outbound call is answered
   or times out: each client.get carries a timeout (5.0 s for the public-IP
   services, 10.0 s for the geolocation and geocoding providers) *)

NextTermination ==
    \/ FirstCall
    \/ GeocodingResponse
    \/ PublicIpAnswer
    \/ GeolocationAnswer
    \/ NextRequest

TerminationSpec ==
    /\ Init /\ [][NextTermination]_vars
    /\ WF_vars(GeocodingResponse)
    /\ WF_vars(PublicIpAnswer)
    /\ WF_vars(GeolocationAnswer)

InFlight == pc \in { "geocoding", "public_ip", "geolocation" }

\* C28: provided every outbound call completes or times out, every call of
\* get_coordinates ends, with a result or with the not-found error, after at
\* most three public-IP requests and three IP-geolocation requests.
C28_Terminates ==
    /\ [](/\ PublicIpCount <= 3
          /\ GeolocationCount <= 3
          /\ Done => \/ result.status = "return"
                     \/ result = Raised(NotFoundMessage))
    /\ (InFlight ~> Done)

\* the longest IP path: three public-IP services and three geolocation
\* providers were asked, all failed, and the call returned the default
C28_Witness ==
    /\ Done
    /\ IpTier
    /\ PublicIpCount = 3
    /\ GeolocationCount = 3
    /\ result = DefaultCoordinates

-----------------------------------------------------------------------------
(* call_tool: the three tools and every other name, the weather provider *)

\* lines 688, 729, 769 and the else branch at 799: the names call_tool meets
WeatherTools == { "get_current_weather", "get_weather_forecast" }
ToolNames == WeatherTools \cup { "get_current_time", "get_air_quality", "" }

\* the arguments of a tool call: by coordinates, by a place name (an empty
\* one too), by IP
ToolArguments ==
    { args \in Arguments :
        /\ args.location_name \in { None, Some(<<>>), Some(<< "a" >>) }
        /\ (args.latitude = Null) = (args.longitude = Null)
        /\ args.client_ip \in { None, Some(PublicAddress) } }

\* the days argument, which only get_weather_forecast reads: absent, numbers,
\* and a number int() rejects
ToolDays == { Null, Num(20000), Num(90000), NaN }

\* int(days) raises (ValueError: cannot convert float NaN to integer)
IntRaises(days) == days.t = "nan"

\* what the weather provider may answer: a failure, a body with the location
\* members, a body without them
WeatherData ==
    [EmptyData EXCEPT !.latitude = Num(515074), !.longitude = Num(-1278)]
WeatherResponses ==
    { Timeout, HttpError, TextBody(<< "<html>" >>), ListBody,
      JsonBody(WeatherData), JsonBody(EmptyData) }

TextContent(text) == [type |-> "text", text |-> text]

\* the words after 'Error getting' and 'Error: Failed to fetch' per tool
ToolTitle ==
    [ name \in WeatherTools \cup { "get_current_time" } |->
        CASE name = "get_current_weather" -> " current weather"
          [] name = "get_weather_forecast" -> " weather forecast"
          [] OTHER -> " current time" ]
FetchTitle ==
    [ name \in WeatherTools |->
        IF name = "get_current_weather" THEN " weather data" ELSE " forecast data" ]

\* call_tool returns [TextContent(type="text", text=...)]
Returns(text) == [tool EXCEPT !.status = "return", !.items = << TextContent(text) >>]

\* the exception leaves call_tool
Propagated(error) == [tool EXCEPT !.status = "raise"]

\* except Exception as e (lines 722-727, 763-768, 792-797)
Caught(error) == Returns(<< "Error getting", ToolTitle[tool.name], ": " >> \o error)

\* lines 695-699 and 737-741: the fetch returned None
FetchFailed == Returns(<< "Error: Failed to fetch", FetchTitle[tool.name] >>)

\* get_current_weather / get_forecast (lines 390-445): None unless the body
\* is a JSON object
WeatherFetched(response) == response.status = "ok" /\ response.json

\* the text of lines 702-718 and 744-760; f"{...:.4f}" of a location member
\* the body lacks raises TypeError
FormattedWeather(response) ==
    IF response.data.latitude.t # "num" \/ response.data.longitude.t # "num"
    THEN Caught(<< "unsupported format string passed to NoneType.__format__" >>)
    ELSE IF tool.name = "get_current_weather"
    THEN Returns(<< "# Current Weather - " >> \o result.location_info)
    ELSE Returns(<< "# ", ToString(tool.forecast_days), "-Day Weather Forecast - " >>
                 \o result.location_info)

\* weather_service.get_current_weather(latitude, longitude) and
\* get_forecast(latitude, longitude, days) with the coordinates in reverse
WeatherRequestSwapped(latitude, longitude, n) ==
    [tool EXCEPT !.sent = TRUE, !.latitude = longitude, !.longitude = latitude,
                 !.forecast_days = n]

\* lines 393-407 and 421-435: the request to the weather provider
WeatherRequest(latitude, longitude, n) ==
    [tool EXCEPT !.sent = TRUE, !.latitude = latitude, !.longitude = longitude,
                 !.forecast_days = n]

\* ---------------------------------------------------------------------------
\* TimeService (lines 272-380)

\* num2words(n) in English, for the numbers of a clock: its words, with the
\* hyphen of the compound numbers
Units ==
    << "one", "two", "three", "four", "five", "six", "seven", "eight", "nine", "ten",
       "eleven", "twelve", "thirteen", "fourteen", "fifteen", "sixteen", "seventeen",
       "eighteen", "nineteen" >>
Tens == << "twenty", "thirty", "forty", "fifty" >>
num2words(n) ==
    IF n = 0 THEN << "zero" >>
    ELSE IF n < 20 THEN << Units[n] >>
    ELSE IF n % 10 = 0 THEN << Tens[n \div 10 - 1] >>
    ELSE << Tens[n \div 10 - 1], "-", Units[n % 10] >>

\* num2words(day, to='ordinal') for the days of a month
OrdinalUnits ==
    << "first", "second", "third", "fourth", "fifth", "sixth", "seventh", "eighth",
       "ninth", "tenth", "eleventh", "twelfth", "thirteenth", "fourteenth",
       "fifteenth", "sixteenth", "seventeenth", "eighteenth", "nineteenth" >>
_get_day_ordinal(day) ==
    IF day < 20 THEN << OrdinalUnits[day] >>
    ELSE IF day = 20 THEN << "twentieth" >>
    ELSE IF day = 30 THEN << "thirtieth" >>
    ELSE << Tens[day \div 10 - 1], "-", OrdinalUnits[day % 10] >>

\* lines 283-289
_get_month_name(month) ==
    << "January", "February", "March", "April", "May", "June", "July", "August",
       "September", "October", "November", "December" >>[month]

\* _format_time_words with the hour taken modulo 12 and nothing else
FormatTimeWordsModulo(hour, minute) ==
    LET hour_12 == hour % 12
        period == IF hour < 12 THEN "am" ELSE "pm"
        hour_word == num2words(hour_12)
    IN  IF minute = 0 THEN hour_word \o << " ", period >>
        ELSE IF minute < 10
        THEN hour_word \o << " oh " >> \o num2words(minute) \o << " ", period >>
        ELSE hour_word \o << " " >> \o num2words(minute) \o << " ", period >>

\* lines 308-328, language 'en'
_format_time_words(hour, minute) ==
    LET hour_12 == IF hour = 0 \/ hour = 12 THEN 12 ELSE hour % 12
        period == IF hour = 0 \/ hour = 12
                  THEN (IF hour = 0 THEN "am" ELSE "pm")
                  ELSE (IF hour < 12 THEN "am" ELSE "pm")
        hour_word == num2words(hour_12)
    IN  IF minute = 0 THEN hour_word \o << " ", period >>
        ELSE IF minute < 10
        THEN hour_word \o << " oh " >> \o num2words(minute) \o << " ", period >>
        ELSE hour_word \o << " " >> \o num2words(minute) \o << " ", period >>

\* line 343: the stand-in for a location IP geolocation did not find
UnknownLocation ==
    [ city |-> Some(<< "Unknown" >>), country |-> Some(<< "Unknown" >>),
      timezone |-> Some(<< "UTC" >>) ]

\* lines 337 and 341: the dict the GeolocationService method returned to the
\* time service, read off the last response of the resolution: the first
\* geocoding result, or the location a provider was accepted with, or None
\* (FALSE in `found`) when every provider failed
TimeGeolocation ==
    LET response == responses[Len(responses)]
    IN  IF TruthyStr(arguments.location_name)
        THEN [found |-> TRUE, dict |-> LocationData(BestMatch(response.data.results))]
        ELSE LET parsed == ParseGeolocation(geolocation_services[svc], response,
                                            ip_address)
             IN  IF ~parsed.raised /\ HasCoordinates(parsed.location)
                 THEN [found |-> TRUE, dict |-> parsed.location]
                 ELSE [found |-> FALSE, dict |-> NoLocation]

\* lines 337-343: the location dict the time service goes on with
TimeLocation == IF TimeGeolocation.found THEN TimeGeolocation.dict ELSE UnknownLocation

\* lines 345-380: the time_data of a location dict at a clock reading.
\* dict.get(key, default) gives the default only when the key is absent; a
\* city of None gets no country appended (TypeError of None += str)
TimeData(geolocation, now) ==
    LET timezone_str == DictGet(geolocation, "timezone", Some(<< "UTC" >>))
        city == DictGet(geolocation, "city", Some(<< "Unknown" >>))
        country == DictGet(geolocation, "country", None)
        appended == TruthyStr(country) /\ country.s # << "Unknown" >>
        location_display == IF appended
                            THEN Some(FormatStr(city) \o << ", " >> \o country.s)
                            ELSE city
    IN  IF appended /\ ~city.some
        THEN [ raised |-> TRUE, location |-> None, timezone |-> None,
               spoken_time |-> <<>> ]
        ELSE [ raised |-> FALSE, location |-> location_display,
               timezone |-> timezone_str,
               spoken_time |-> << "the current time is " >>
                               \o _format_time_words(now.hour, now.minute)
                               \o << " ", _get_month_name(now.month), " " >>
                               \o _get_day_ordinal(now.day)
                               \o << " in " >> \o FormatStr(location_display) ]

\* str.capitalize() over the words the sentence is made of: the first
\* character in upper case, every other one in lower case
LowerCase(t) ==
    CASE t = "Unknown" -> "unknown"
      [] t = "Wichita" -> "wichita"
      [] t = "Springfield" -> "springfield"
      [] t = "United States" -> "united states"
      [] t = "US" -> "us"
      [] t = "None" -> "none"
      [] \E m \in 1..12 : t = _get_month_name(m) ->
            << "january", "february", "march", "april", "may", "june", "july",
               "august", "september", "october", "november", "december" >>
            [CHOOSE m \in 1..12 : t = _get_month_name(m)]
      [] OTHER -> t
Capitalize(s) ==
    [ k \in 1..Len(s) |->
        IF k = 1 /\ s[k] = "the current time is " THEN "The current time is "
        ELSE LowerCase(s[k]) ]

\* f"{n:02d}"
TwoDigits(n) == IF n < 10 THEN << "0", ToString(n) >> ELSE << ToString(n) >>

\* lines 777-786: the text of the answer (the ISO time and the year, which no
\* branch depends on, are left out)
TimeText(time_data, now) ==
    << "# Current Time", "\n\n" >> \o Capitalize(time_data.spoken_time)
    \o << "\n\n*Detailed Information:*\n", "- **Location**: " >> \o FormatStr(time_data.location)
    \o << "- **Timezone**: " >> \o FormatStr(time_data.timezone)
    \o << "- **Date**: ", ToString(now.month), "/", ToString(now.day) >>
    \o << "- **Time**: " >> \o TwoDigits(now.hour) \o << ":" >> \o TwoDigits(now.minute)

\* the clock readings a tool call may meet: datetime.now(tz)
ClockReadings ==
    { [hour |-> 0, minute |-> 5, month |-> 1, day |-> 1],
      [hour |-> 13, minute |-> 0, month |-> 12, day |-> 31] }

\* get_current_time_for_location resolving by IP whether or not a place name
\* was given
get_current_time_by_ip(args, provider) ==
    /\ arguments' = args
    /\ geocoding' = provider
    /\ UNCHANGED <<geolocation_services, public_ip_services>>
    /\ PrepareAddress(args.client_ip, <<>>, <<>>, <<>>)

\* TimeService.get_current_time_for_location, lines 335-343: the location is
\* resolved by name when one is given, otherwise by IP; neither coordinate is
\* read. The resolution shares the steps of the GeolocationService with
\* get_coordinates; of `result` the time service has only whether the
\* resolution returned or raised could-not-find-location, and its location
\* dict is TimeGeolocation.
get_current_time_for_location(args, provider) ==
    /\ arguments' = args
    /\ geocoding' = provider
    /\ UNCHANGED <<geolocation_services, public_ip_services>>
    /\ IF TruthyStr(args.location_name)
       THEN SendGeocoding(args.location_name.s, <<>>, <<>>, <<>>)
       ELSE PrepareAddress(args.client_ip, <<>>, <<>>, <<>>)

\* call_tool(name, arguments), up to its first outbound call or its return
call_tool ==
    /\ pc = "idle"
    /\ \E name \in ToolNames, args \in ToolArguments :
          \E days \in (IF name = "get_weather_forecast" THEN ToolDays ELSE { Null }),
             provider \in GeocodingProviders(args.location_name) :
             LET called == ToolCalled(name, FALSE, FALSE, Null, Null, 0, "running", <<>>)
             IN  /\ forecast' = Forecast(days, FALSE, 0)
                 /\ IF name \in WeatherTools
                    THEN tool' = called /\ get_coordinates(args, provider)
                    ELSE IF name = "get_current_time"
                    THEN tool' = called /\ get_current_time_for_location(args, provider)
                    ELSE /\ tool' = [called EXCEPT
                                       !.status = "return",
                                       !.items = << TextContent(<< "Unknown tool: ", name >>) >>]
                         /\ arguments' = args
                         /\ geocoding' = provider
                         /\ UNCHANGED <<geolocation_services, public_ip_services>>
                         /\ Goto("returned", <<>>, None, 0, <<>>, <<>>, <<>>, NoResult)
    /\ UNCHANGED <<previous, other, clock, single>>

\* get_coordinates returned: the days are clamped (forecast) and the weather
\* provider is asked (lines 692-693 and 732-735)
FetchWeather ==
    /\ pc = "done"
    /\ tool.status = "running"
    /\ tool.name \in WeatherTools
    /\ result.status = "return"
    /\ IF tool.name = "get_weather_forecast" /\ IntRaises(forecast.days)
       THEN /\ tool' = Caught(<< "cannot convert float NaN to integer" >>)
            /\ pc' = "returned"
            /\ UNCHANGED forecast
       ELSE LET n == IF tool.name = "get_weather_forecast"
                     THEN ForecastDays(forecast.days) ELSE 1
            IN  /\ tool' = WeatherRequest(result.latitude, result.longitude, n)
                /\ pc' = "weather"
                /\ forecast' = IF tool.name = "get_weather_forecast"
                               THEN Forecast(forecast.days, TRUE, n) ELSE forecast
    /\ UNCHANGED <<arguments, geocoding, location_name, ip_address, svc, requests,
                   responses, log, result, geolocation_services, public_ip_services,
                   previous, other, clock, single>>

\* the weather provider answers, call_tool returns its text
WeatherAnswer ==
    /\ pc = "weather"
    /\ \E response \in WeatherResponses :
          tool' = [ (IF WeatherFetched(response) THEN FormattedWeather(response)
                     ELSE FetchFailed) EXCEPT !.answered = TRUE,
                                              !.response = response ]
    /\ pc' = "returned"
    /\ UNCHANGED <<arguments, geocoding, location_name, ip_address, svc, requests,
                   responses, log, result, geolocation_services, public_ip_services,
                   previous, other, forecast, clock, single>>

\* get_coordinates or the time service raised: the except clause answers
ToolFails ==
    /\ pc = "done"
    /\ tool.status = "running"
    /\ result.status = "raise"
    /\ tool' = Caught(result.error)
    /\ pc' = "returned"
    /\ UNCHANGED <<arguments, geocoding, location_name, ip_address, svc, requests,
                   responses, log, result, geolocation_services, public_ip_services,
                   previous, other, forecast, clock, single>>

\* get_current_time: the time service returned (lines 776-790)
TimeReturns ==
    /\ pc = "done"
    /\ tool.status = "running"
    /\ tool.name = "get_current_time"
    /\ result.status = "return"
    /\ \E now \in ClockReadings :
          LET time_data == TimeData(TimeLocation, now)
          IN  /\ clock' = Clock(TRUE, now.hour, now.minute, now.month, now.day,
                                _format_time_words(now.hour, now.minute))
              /\ tool' = IF time_data.raised
                         THEN Caught(<< "unsupported operand type(s) for +=: ",
                                        "'NoneType' and 'str'" >>)
                         ELSE [ Returns(TimeText(time_data, now)) EXCEPT
                                  !.location = time_data.location,
                                  !.timezone = time_data.timezone,
                                  !.spoken_time = time_data.spoken_time ]
    /\ pc' = "returned"
    /\ UNCHANGED <<arguments, geocoding, location_name, ip_address, svc, requests,
                   responses, log, result, geolocation_services, public_ip_services,
                   previous, other, forecast, single>>

\* the handler is over; the server waits for the next tool call
ToolReturn ==
    /\ pc = "returned"
    /\ Resume(NoFrame)
    /\ forecast' = NoForecast
    /\ tool' = NoTool
    /\ clock' = NoClock
    /\ UNCHANGED <<geolocation_services, public_ip_services, other, single>>

NextTool ==
    \/ call_tool
    \/ GeocodingResponse
    \/ PublicIpAnswer
    \/ GeolocationAnswer
    \/ FetchWeather
    \/ WeatherAnswer
    \/ ToolFails
    \/ TimeReturns
    \/ ToolReturn

ToolSpec == Init /\ [][NextTool]_vars

\* ---------------------------------------------------------------------------
\* outbound calls of the request that have not been answered yet
Unanswered == Len(requests) - Len(responses)
WeatherInFlight == IF tool.sent /\ ~tool.answered THEN 1 ELSE 0

\* C27: within one request at most one outbound HTTP call is in flight at
\* any moment: a provider is contacted only after the previous call of the
\* request was answered or failed, across discovery, IP geolocation,
\* geocoding and the weather fetch.
C27_OneCallInFlight ==
    /\ Unanswered \in { 0, 1 }
    /\ Unanswered + WeatherInFlight <= 1
    /\ (Unanswered = 1) = InFlight
    /\ (WeatherInFlight = 1) = (pc = "weather")
    /\ tool.sent => Unanswered = 0

\* the weather provider is being asked after three public-IP services and a
\* geolocation provider have all answered
C27_Witness ==
    /\ pc = "weather"
    /\ WeatherInFlight = 1
    /\ PublicIpCount = 3
    /\ GeolocationCount >= 1
    /\ Len(responses) = Len(requests)

\* ---------------------------------------------------------------------------
HandlerReturned == pc = "returned"

\* the text of the one item call_tool returned
ReturnedText == tool.items[1].text

KnownTool == tool.name \in WeatherTools \cup { "get_current_time" }

\* C29: call_tool never raises: for every tool name and every arguments it
\* returns a list of exactly one text item; a name other than the three tools
\* gives 'Unknown tool: <name>', an exception inside a tool (location not
\* found included) a text starting with 'Error getting', and a failed weather
\* or forecast fetch an 'Error: Failed to fetch' text.
C29_AlwaysOneText ==
    /\ tool.status # "raise"
    /\ HandlerReturned =>
          /\ tool.status = "return"
          /\ Len(tool.items) = 1
          /\ tool.items[1].type = "text"
          /\ (ReturnedText = << "Unknown tool: ", tool.name >>) = ~KnownTool
          /\ (KnownTool /\ result.status = "raise") =>
                /\ ReturnedText[1] = "Error getting"
                /\ SubSeq(ReturnedText, 4, Len(ReturnedText)) = result.error
          /\ (tool.name = "get_weather_forecast" /\ result.status = "return"
                /\ IntRaises(forecast.days)) =>
                ReturnedText[1] = "Error getting"
          /\ (tool.answered /\ ~WeatherFetched(tool.response)) =>
                ReturnedText[1] = "Error: Failed to fetch"
          /\ ReturnedText[1] \in { "Error getting", "Error: Failed to fetch" } =>
                \/ result.status = "raise"
                \/ tool.name = "get_weather_forecast" /\ IntRaises(forecast.days)
                \/ tool.answered /\ ~WeatherFetched(tool.response)
                \/ tool.answered /\ tool.response.data.latitude.t # "num"
                \/ /\ tool.name = "get_current_time"
                   /\ DictGet(TimeLocation, "city", Some(<< "Unknown" >>)) = None

\* the place name of a get_current_weather call was not found: the handler
\* returned the one text 'Error getting current weather: Could not find ...'
C29_Witness ==
    /\ HandlerReturned
    /\ tool.name = "get_current_weather"
    /\ result = Raised(NotFoundMessage)
    /\ tool.items = << TextContent(<< "Error getting", " current weather", ": " >>
                                   \o NotFoundMessage) >>

\* ---------------------------------------------------------------------------
\* C30: in get_current_weather and get_weather_forecast the weather provider
\* is asked only after location resolution has returned coordinates, and with
\* exactly those coordinates; when get_coordinates raises not-found, no
\* weather or forecast request is made for the tool call.
C30_WeatherAfterResolution ==
    /\ tool.sent =>
          /\ tool.name \in WeatherTools
          /\ result.status = "return"
          /\ Unanswered = 0
          /\ tool.latitude = result.latitude
          /\ tool.longitude = result.longitude
    /\ result.status = "raise" => ~tool.sent
    /\ (HandlerReturned /\ tool.name \in WeatherTools /\ ~tool.sent) =>
          \/ result.status = "raise"
          \/ tool.name = "get_weather_forecast" /\ IntRaises(forecast.days)

\* a forecast is being fetched for the coordinates the geocoder gave for the
\* place name
C30_Witness ==
    /\ pc = "weather"
    /\ tool.name = "get_weather_forecast"
    /\ NameTier
    /\ RequestsTo("geocoding") # {}
    /\ result.status = "return"
    /\ tool.latitude = Num(515074)
    /\ tool.longitude = Num(-1278)

\* ---------------------------------------------------------------------------
\* the time tool's ladder

TimeTool == tool.name = "get_current_time"

\* every geolocation provider has answered and none was accepted
IpGeolocationFailed ==
    /\ Len(responses) = Len(requests)
    /\ Cardinality(RequestsTo("geolocation")) = Len(geolocation_services)
    /\ ~TimeGeolocation.found

\* C31: get_current_time_for_location with a non-empty location_name asks
\* the geocoding provider only, and when the name cannot be geocoded the
\* could-not-find-location error is what the tool reports, no IP geolocation
\* having been attempted; without a location_name nothing is raised, and when
\* every IP geolocation provider has failed the time is given for the
\* location 'Unknown' in timezone 'UTC'.
C31_TimeLadder ==
    TimeTool =>
       /\ TruthyStr(arguments.location_name) =>
             /\ \A k \in 1..Len(requests) : requests[k].api = "geocoding"
             /\ result.status = "raise" =>
                   /\ result = LocationNotFound(arguments.location_name)
                   /\ HandlerReturned =>
                         ReturnedText = << "Error getting", " current time", ": ",
                                           "Could not find location: " >>
                                        \o arguments.location_name.s
       /\ ~TruthyStr(arguments.location_name) =>
             /\ result.status # "raise"
             /\ RequestsTo("geocoding") = {}
             /\ (HandlerReturned /\ IpGeolocationFailed) =>
                   /\ tool.status = "return"
                   /\ ReturnedText[1] = "# Current Time"
                   /\ tool.location = Some(<< "Unknown" >>)
                   /\ tool.timezone = Some(<< "UTC" >>)
                   /\ SubSeq(tool.spoken_time, Len(tool.spoken_time) - 1,
                             Len(tool.spoken_time)) = << " in ", "Unknown" >>

\* the time was asked without a place name, the three geolocation providers
\* failed, and the tool answered with the time of 'Unknown' in UTC
C31_Witness ==
    /\ TimeTool
    /\ HandlerReturned
    /\ ~TruthyStr(arguments.location_name)
    /\ IpGeolocationFailed
    /\ tool.location = Some(<< "Unknown" >>)

\* the time service resolved the place name: the geocoding provider had a
\* result for it
NameResolved ==
    /\ TimeTool
    /\ HandlerReturned
    /\ TruthyStr(arguments.location_name)
    /\ result.status = "return"

\* C32: whenever get_current_time_for_location resolves a place name, the
\* 'location' label it returns and the spoken sentence contain the name of
\* the geocoded place and not the placeholder 'Unknown'.
C32_LabelNamesPlace ==
    NameResolved =>
       /\ tool.location.some
       /\ Contains(tool.location.s, TimeGeolocation.dict.name.s)
       /\ "Unknown" \notin Range(tool.location.s)
       /\ Contains(tool.spoken_time, TimeGeolocation.dict.name.s)

\* ---------------------------------------------------------------------------
\* _format_time_words over the clock: the specification of the pure function

\* the hours and minutes of a datetime
Hours == 0..23
Minutes == 0..59

\* nothing runs but the clock: a reading is drawn, the words are formed
InitTimeWords ==
    /\ pc = "idle"
    /\ arguments = NoArguments
    /\ geocoding = << >>
    /\ location_name = <<>>
    /\ ip_address = None
    /\ svc = 0
    /\ requests = <<>>
    /\ responses = <<>>
    /\ log = <<>>
    /\ result = NoResult
    /\ geolocation_services = GeolocationServices
    /\ public_ip_services = PublicIpServices
    /\ previous = NoPrevious
    /\ other = NoFrame
    /\ forecast = NoForecast
    /\ tool = NoTool
    /\ single = NoSingle
    /\ \E hour \in Hours, minute \in Minutes :
          clock = Clock(FALSE, hour, minute, 1, 1, <<>>)

\* time_words = self._format_time_words(hour, minute, language), line 360
FormatTimeWords ==
    /\ ~clock.read
    /\ clock' = [clock EXCEPT !.read = TRUE,
                              !.time_words = _format_time_words(clock.hour,
                                                                clock.minute)]
    /\ UNCHANGED <<pc, arguments, geocoding, location_name, ip_address, svc, requests,
                   responses, log, result, geolocation_services, public_ip_services,
                   previous, other, forecast, tool, single>>

\* the next call reads the clock again
ReadClock ==
    /\ clock.read
    /\ \E hour \in Hours, minute \in Minutes :
          clock' = Clock(FALSE, hour, minute, 1, 1, <<>>)
    /\ UNCHANGED <<pc, arguments, geocoding, location_name, ip_address, svc, requests,
                   responses, log, result, geolocation_services, public_ip_services,
                   previous, other, forecast, tool, single>>

NextTimeWords ==
    \/ FormatTimeWords
    \/ ReadClock

TimeWordsSpec == InitTimeWords /\ [][NextTimeWords]_vars

\* the words of the reading have been formed
Spoken == clock.read

\* the number whose word the sentence starts with, if it is one of 1..19
HourSpoken == { n \in 1..19 : clock.time_words[1] = Units[n] }

\* the last word of the sentence
Period == clock.time_words[Len(clock.time_words)]

\* the words between the hour and the period
Middle == SubSeq(clock.time_words, 2, Len(clock.time_words) - 2)

\* C33: for every hour in 0..23 and minute in 0..59, _format_time_words
\* speaks an hour number in 1..12 (12 for the hours 0 and 12, otherwise the
\* hour modulo 12), says 'am' exactly when the hour is below 12 and 'pm'
\* otherwise, leaves the minute out when it is 0, and puts 'oh' before the
\* minute exactly when the minute is in 1..9.
C33_TimeWords ==
    Spoken =>
       /\ \E n \in 1..12 :
             /\ HourSpoken = { n }
             /\ n = IF clock.hour \in { 0, 12 } THEN 12 ELSE clock.hour % 12
       /\ Period \in { "am", "pm" }
       /\ (Period = "am") = (clock.hour < 12)
       /\ (clock.minute = 0) = (Middle = <<>>)
       /\ (" oh " \in Range(clock.time_words)) = (clock.minute \in 1..9)
       /\ clock.minute \in 1..9 => Middle = << " oh " >> \o num2words(clock.minute)
       /\ clock.minute > 9 => Middle = << " " >> \o num2words(clock.minute)
       /\ clock.time_words[Len(clock.time_words) - 1] = " "

\* five past noon has been spoken: 'twelve oh five pm'
C33_Witness ==
    /\ Spoken
    /\ clock.hour = 12
    /\ clock.minute = 5
    /\ clock.time_words = << "twelve", " oh ", "five", " ", "pm" >>

\* ---------------------------------------------------------------------------
\* geolocation.py: the single-provider GeolocationService, run on the
\* client_ip of a call of the multi-provider one and against the same world

\* geolocation.py, lines 8-9
IpapiUrl == << "http://", "ipapi.co", "/json/" >>
IfconfigUrl == << "https://", "ifconfig.io", "/json" >>

\* geolocation.py, lines 22 and 51: timeout=10.0
SingleTimeout == 10

\* geolocation.py, lines 43-47: the URL of the one geolocation request
SingleUrl(target_ip) ==
    IF TruthyStr(target_ip)
    THEN << "http://", "ipapi.co", "/" >> \o target_ip.s \o << "/json/" >>
    ELSE IpapiUrl

\* SingleLocation taking the country from the member 'country'
SingleLocationCountryCode(data) ==
    Location(data.city, data.region, data.country, data.latitude, data.longitude,
             data.ip)

\* geolocation.py, lines 56-63: the location dict
SingleLocation(data) ==
    Location(data.city, data.region, data.country_name, data.latitude,
             data.longitude, data.ip)

\* geolocation.py, lines 20-28: get_public_ip of one response of ifconfig.io
SinglePublicIp(response) ==
    IF response.status = "ok" /\ response.json THEN response.data.ip ELSE None

\* geolocation.py, lines 50-74: [returned, location] of ipapi.co's response;
\* whatever raises ends in 'return None'
SingleParse(response) ==
    IF response.status = "ok" /\ response.json
       /\ HasCoordinates(SingleLocation(response.data))
    THEN [returned |-> TRUE, location |-> SingleLocation(response.data)]
    ELSE [returned |-> FALSE, location |-> NoLocation]

\* geolocation.py, lines 43-51: the request to ipapi.co is sent
SingleAsk(target_ip, urls) ==
    Single("geolocation", target_ip,
           Append(urls, Request("geolocation", SingleUrl(target_ip), None,
                                SingleTimeout)),
           FALSE, NoLocation)

\* geolocation.py, lines 32-41: get_geolocation_from_ip up to its first request
SingleStart(client_ip) ==
    IF ~TruthyStr(client_ip) \/ is_private_ip(client_ip.s).value
    THEN Single("public_ip", client_ip,
                << Request("public_ip", IfconfigUrl, None, SingleTimeout) >>,
                FALSE, NoLocation)
    ELSE SingleAsk(client_ip, <<>>)

\* the address a geolocation provider locates: the one in the URL, or the
\* origin of the request, which is the address the echo services report
LocatedAddress(ip) == IF TruthyStr(ip) THEN ip.s ELSE EchoedAddress

\* what ipapi.co answers to the single-provider service: for the address it
\* answered the multi-provider service about, the same
IpapiAnswers ==
    LET asked == RequestsTo("geolocation")
        first == CHOOSE k \in asked : \A j \in asked : k <= j
    IN  IF LocatedAddress(single.target_ip) = LocatedAddress(ip_address)
        THEN { responses[first] }
        ELSE GeolocationResponses(1)

\* both services are called with the same client_ip
CompareCall ==
    /\ pc = "idle"
    /\ single.pc = "idle"
    /\ \E client_ip \in ClientIpArgs :
          /\ get_coordinates([NoArguments EXCEPT !.client_ip = client_ip], << >>)
          /\ single' = SingleStart(client_ip)
    /\ UNCHANGED <<previous, other, forecast, tool, clock>>

\* ifconfig.io answers (geolocation.py, lines 35-41)
SinglePublicIpAnswer ==
    /\ single.pc = "public_ip"
    /\ \E response \in PublicIpResponses(1) :
          LET public_ip == SinglePublicIp(response)
          IN  single' = SingleAsk(IF TruthyStr(public_ip) THEN public_ip ELSE None,
                                  single.requests)
    /\ UNCHANGED <<pc, arguments, geocoding, location_name, ip_address, svc, requests,
                   responses, log, result, geolocation_services, public_ip_services,
                   previous, other, forecast, tool, clock>>

\* ipapi.co answers the single-provider service (geolocation.py, lines 50-74)
SingleGeolocationAnswer ==
    /\ single.pc = "geolocation"
    /\ pc = "done"
    /\ \E response \in IpapiAnswers :
          single' = [single EXCEPT !.pc = "done",
                                   !.returned = SingleParse(response).returned,
                                   !.location = SingleParse(response).location]
    /\ UNCHANGED <<pc, arguments, geocoding, location_name, ip_address, svc, requests,
                   responses, log, result, geolocation_services, public_ip_services,
                   previous, other, forecast, tool, clock>>

\* both have returned; the next comparison may start
CompareReturn ==
    /\ pc = "done"
    /\ single.pc = "done"
    /\ Resume(NoFrame)
    /\ single' = NoSingle
    /\ UNCHANGED <<geolocation_services, public_ip_services, other, forecast, tool,
                   clock>>

NextCompare ==
    \/ CompareCall
    \/ PublicIpAnswer
    \/ GeolocationAnswer
    \/ SinglePublicIpAnswer
    \/ SingleGeolocationAnswer
    \/ CompareReturn

CompareSpec == Init /\ [][NextCompare]_vars

\* both services have returned
BothReturned == pc = "done" /\ single.pc = "done"

\* what the multi-provider get_geolocation_from_ip returned
MultiReturned == TimeGeolocation

\* each service either needed no discovery or had the address from the first
\* discovery service it asked
DiscoveryAtFirst ==
    /\ Cardinality(RequestsTo("public_ip")) <= 1
    /\ \A k \in RequestsTo("public_ip") : TruthyStr(ip_address)
    /\ \A k \in 1..Len(single.requests) :
          single.requests[k].api = "public_ip" => TruthyStr(single.target_ip)

\* ipapi.co answered the multi-provider service with usable coordinates
IpapiUsable ==
    /\ Cardinality(RequestsTo("geolocation")) = 1
    /\ MultiReturned.found

\* the multi-provider service went past ipapi.co
MovedOn == Cardinality(RequestsTo("geolocation")) > 1

\* C34: called with the same client_ip, the single-provider service of
\* geolocation.py and the multi-provider service of server.py return the
\* same location whenever discovery, if needed, succeeds at the first service
\* and ipapi.co answers with usable coordinates; and whenever what they
\* return differs, the single-provider one returned failure and the
\* multi-provider one had moved on to a further provider.
C34_SameLocation ==
    BothReturned =>
       /\ (DiscoveryAtFirst /\ IpapiUsable) =>
             /\ single.returned
             /\ single.location = MultiReturned.dict
       /\ (single.returned # MultiReturned.found
           \/ single.location # MultiReturned.dict) =>
             /\ ~single.returned
             /\ MultiReturned.found
             /\ MovedOn

\* a private client_ip: each service had the public address from its first
\* discovery service, ipapi.co located it, and both returned that location
C34_Witness ==
    /\ BothReturned
    /\ arguments.client_ip = Some(PrivateAddress)
    /\ DiscoveryAtFirst
    /\ IpapiUsable
    /\ Len(single.requests) = 2
    /\ single.returned
    /\ single.location = MultiReturned.dict
    /\ single.location.city = Wichita

====
